---- MODULE Spec2Model ----
(***************************************************************************)
(* Shared-memory ring transport of mac-keyboard-brightness: one sampling   *)
(* producer process (sensor_worker) writes 3-axis samples into a ring in   *)
(* shared memory, one consumer process (motion_live.main,                  *)
(* accelerometer.main, gyroscope.main) polls it with shm_read_new and      *)
(* supervises the producer.                                                *)
(*                                                                         *)
(* Every access to the shared buffer (struct.pack_into / unpack_from) is   *)
(* one step, so that the two processes interleave at the granularity the   *)
(* operating system gives them.                                            *)
(***************************************************************************)
EXTENDS Integers, Sequences, FiniteSets, TLC

\* ------------------------------------------------------------------ bounds

\* Ring capacity.  The program uses 8000 (src/spu_sensor.py:17); the model
\* keeps the arithmetic and scales the size down.
RING_CAP == 3

\* Largest number of shm_write_sample calls in a behaviour.
MaxWrites == 5

\* Largest value of the consumer's restart counter in a behaviour.
MaxRestarts == 2

\* The producer's decimation factor (8 in src/spu_sensor.py:130, the
\* decimate argument in src/lib/spu_sensor.py:211), scaled down.
Decimate == 2

\* Largest decimation factor a producer is started with.
MaxDecimate == 3

\* Largest number of reports handed to the callbacks of one producer.
MaxReports == 7

\* Significant bits of a floating-point number.  Python's float has 53; the
\* model keeps round-to-nearest-even and scales the width down.
Precision == 5

\* Fractional bits of the rates the model requests: rates are multiples of
\* 1 / 2^RateFracBits Hz that a float of Precision bits holds exactly.
RateFracBits == 4

\* Largest number of det.process calls in a behaviour.
MaxSamples == 12

\* Largest number of changes of the acceleration's level in a behaviour.
MaxFlips == 3

\* Largest number of loop turns that advance the clock in a behaviour.
MaxPolls == 1

\* Largest number of samples of a sustained shift in a behaviour.
MaxShifted == 400

\* Largest number of detections handed to _classify.
MaxDetections == 4

\* Capacities of the event log and of the event time stamps (500 and 200 in
\* src/motion_live.py:110-111), scaled down.
EventsMax == 3
EventTsMax == 2

\* The largest batch motion_live.main hands to the detector in one loop turn
\* (200 in src/motion_live.py:645, below the ring's capacity), scaled down.
MAX_BATCH == 2
MaxField == 3
MaxPayload == 5

\* rates up to MaxRateQ quarters of a hertz, and those next to NATIVE_RATE_HZ
MaxRateQ == 50

\* raw streams of at most MaxRawLen bytes, read at most MaxRead bytes at a time
MaxRawLen == 10
MaxRead == 3

\* pulses of at most MaxWidth samples in the heartbeat buffer
MaxWidth == 2

\* the evaluated magnitude is at most MaxDev units of 1e-5 g off the median
MaxDev == 130

\* a turn of main's loop processes at most MaxBatchLen samples
MaxBatchLen == 5

\* process() calls in a run of the event logs
MaxCalls == 5

\* update_with_accel calls on one MahonyOrientation
MaxUpdates == 3

\* process() calls on the detector studied from its first call
MaxFirstCalls == 3

\* process() calls on the detector whose statistics' schedule is followed
MaxSchedule == 61

\* changes of the x acceleration while the schedule is followed
MaxKnocks == 2

\* calls of the CUSUM stage from an arbitrary entry state
MaxEntries == 2

\* input sequences of at most MaxInput samples for the resampler
MaxInput == 4

\* ------------------------------------------------------- program constants

ACCEL_SCALE == 65536
IMU_REPORT_LEN == 22
ALS_REPORT_LEN == 122
NATIVE_RATE_HZ == 800

\* Lengths of the HID reports the callback is handed.
ReportLens == {IMU_REPORT_LEN, ALS_REPORT_LEN}

\* The consumer programs that supervise a sensor_worker.  gyroscope.main
\* polls a second ring of the same layout for the gyroscope channel; the
\* model follows the accelerometer ring, which all three programs read.
Kinds == {"motion_live", "accelerometer", "gyroscope"}

VARIABLES
    \* shared memory: header and ring
    write_idx,      \* [0..3]   u32
    total_written,  \* [4..11]  u64
    restarts,       \* [12..15] u32
    slots,          \* ring of RING_CAP entries, each <<x, y, z>>
    \* producer process (sensor_worker)
    walive,         \* the process runs
    wpc,            \* its position
    w_idx,          \* shm_write_sample: idx
    w_total,        \* shm_write_sample: total
    w_rc,           \* sensor_worker's restart_count argument
    decimate_ctr,   \* decimate[0]
    orphans,        \* live producers the consumer holds no handle of
    \* consumer process
    kind,           \* which program the consumer is
    cpc,            \* its position
    running,        \* running[0], cleared by the signal handler
    worker,         \* "none" or "proc": the multiprocessing.Process handle
    restart_count,  \* restart_count[0]
    last_total,     \* last_total
    r_total,        \* shm_read_new: total
    r_n,            \* shm_read_new: n_new
    r_idx,          \* shm_read_new: idx
    r_i,            \* shm_read_new: i
    samples,        \* shm_read_new: samples
    exit_code,      \* -1 while the consumer runs, then its exit status
    det_fed,        \* motion_live: the samples given to det.process so far
    \* history
    nstored,        \* slot stores so far: the k-th stores RawSample(k)
    ret,            \* the sample list the last shm_read_new returned
    callLast,       \* the last_total that call was given
    nreads,         \* shm_read_new calls that have returned (capped at 2)
    delivered,      \* concatenation of every returned sample list
    dirty,          \* slots stored to since the current read's total load
    raced,          \* the consumer has loaded a slot of dirty
    lagged,         \* the consumer was RING_CAP or more samples behind
    quiet,          \* no producer store since the last read's total load
    \* the components studied on their own, each in its own specification
    dec,            \* sensor_worker's report callbacks and their rings
    acc,            \* accelerometer.main: the requested rate and what is made of it
    det,            \* motion_live.main: det, the VibrationDetector
    now,            \* motion_live.main: now = time.time(), in ms
    dlog,           \* history of the calls of det.process
    cus,            \* the CUSUM stage under a sustained shift of the magnitude
    cls,            \* _classify: its arguments and the event it appends
    cmd,            \* a command from its root check to its exit status
    hdr,            \* FloatSignalReader.from_stdin: the input and its outcome
    rt,             \* a writer's header read back by read_header
    hb,             \* detect_heartbeat: hr_buf and what the call leaves
    pk,             \* the Peak/MAD stage: its window and what it appends
    pipe,           \* motion_live.main: a batch of samples going through det.process
    lg,             \* the event log and the time stamps over a run of emissions
    mah,            \* gyroscope.main: ahrs, the MahonyOrientation
    fst,            \* a new VibrationDetector with its waveform and heartbeat buffers
    sch,            \* a VibrationDetector followed over its first sixty samples
    res             \* accelerometer.main: resampler, a LinearResampler fed in chunks

shm == <<write_idx, total_written, restarts, slots>>
prod == <<walive, wpc, w_idx, w_total, w_rc, decimate_ctr, orphans>>
rdr == <<r_total, r_n, r_idx, r_i, samples>>
cons == <<kind, cpc, running, worker, restart_count, last_total, exit_code, det_fed>>
hist == <<nstored, ret, callLast, nreads, delivered, dirty, raced, lagged, quiet>>
ring == <<shm, prod, rdr, cons, hist>>
aux == <<dec, acc, det, now, dlog, cus, cls, cmd, hdr, rt, hb, pk, pipe, lg, mah, fst, sch, res>>
vars == <<ring, aux>>

\* --------------------------------------------------------- pure functions

\* The raw report payload of the k-th stored sample: three i32.
RawSample(k) == <<k, 0 - k, 0>>

\* x / ACCEL_SCALE: an i32 over 2^16 is exact in a double, so the quotient
\* is the rational <<numerator, denominator>>.
Div(x, d) == <<x, d>>

\* shm_read_new: one ring entry converted to g.
ToG(raw) == <<Div(raw[1], ACCEL_SCALE), Div(raw[2], ACCEL_SCALE), Div(raw[3], ACCEL_SCALE)>>

NNew_OffByOne(total, last) ==
    LET n == total - last + 1 IN IF n > RING_CAP THEN RING_CAP ELSE n

NNew_NoClamp(total, last) == total - last

\* shm_read_new: n_new, clamped to the ring's depth.
NNew(total, last) ==
    LET n == total - last IN IF n > RING_CAP THEN RING_CAP ELSE n

\* shm_read_new: the oldest slot to read.
Start(idx, n) == (idx - n) % RING_CAP

\* shm_read_new: the i-th slot to read.
Pos(start, i) == (start + i) % RING_CAP

NextIdx_NoWrap(idx) == idx + 1

\* shm_write_sample: the write index after a write.
NextIdx(idx) == (idx + 1) % RING_CAP

InWrite == wpc \in {"w_lidx", "w_slot", "w_idx", "w_ltotal", "w_stotal"}
InRead == cpc \in {"r_idx", "r_slot"}

\* ------------------------------------------- report callbacks (decimation)

\* The channels sensor_worker registers a decimating callback for.
Channels == {"accel", "gyro"}

\* max(1, int(decimate))
Max1(d) == IF d < 1 THEN 1 ELSE d

Due_OffByOne(ctr, d) == ctr > Max1(d)

\* on_accel_report, on_gyro_report: the report is kept unless
\* ctr < max(1, int(decimate)).
Due(ctr, d) == ~(ctr < Max1(d))

\* A channel as sensor_worker starts it: counter 0, ring empty.  k counts the
\* valid reports handed to the callback, log lists which of them were written.
ChanInit == [ctr |-> 0, k |-> 0, write_idx |-> 0, total_written |-> 0,
             slots |-> [p \in 0..(RING_CAP - 1) |-> <<0, 0, 0>>], log |-> <<>>]

DecInit(d) == [decimate |-> d, calls |-> 0, chan |-> [c \in Channels |-> ChanInit]]

\* shm_write_sample(buf, x, y, z) on a channel's ring, run to completion:
\* the callbacks of one producer run one after the other on its run loop.
ChanWrite(ch, x, y, z) ==
    [ch EXCEPT !.slots[ch.write_idx] = <<x, y, z>>,
               !.write_idx = NextIdx(ch.write_idx),
               !.total_written = ch.total_written + 1]

\* The body of on_accel_report / on_gyro_report for a report of length len.
OnChannelReport(ch, d, len) ==
    IF len = IMU_REPORT_LEN
    THEN LET c == ch.ctr + 1
             n == ch.k + 1
         IN  IF ~Due(c, d)
             THEN [ch EXCEPT !.ctr = c, !.k = n]
             ELSE [ChanWrite(ch, n, 0 - n, 0) EXCEPT !.ctr = 0, !.k = n,
                                                     !.log = Append(ch.log, n)]
    ELSE ch

\* ------------------------------------------- accelerometer.main: the rate

RECURSIVE Pow2(_)
Pow2(k) == IF k <= 0 THEN 1 ELSE 2 * Pow2(k - 1)

\* Rates are counted in units of 1 / RateUnit Hz.
RateUnit == Pow2(RateFracBits)

\* n is m * 2^j with m below 2^Precision: a float holds it exactly.
Representable(n) ==
    \E j \in 0..20 : n % Pow2(j) = 0 /\ n \div Pow2(j) < Pow2(Precision)

\* The values --rate can take (argparse type=float), in units of 1/RateUnit.
Rates == {n \in 0..((NATIVE_RATE_HZ + 2 * Pow2(Precision)) * RateUnit) : Representable(n)}

\* n / d scaled by powers of two until the quotient has Precision bits:
\* n * su / (d * sd) lies in [2^(Precision-1), 2^Precision).
RECURSIVE Norm(_, _, _, _)
Norm(n, d, su, sd) ==
    IF n * su < Pow2(Precision - 1) * d * sd THEN Norm(n, d, 2 * su, sd)
    ELSE IF n * su >= Pow2(Precision) * d * sd THEN Norm(n, d, su, 2 * sd)
    ELSE [su |-> su, sd |-> sd]

\* The float quotient n / d, n, d > 0: the exact quotient rounded to
\* Precision bits, ties to even, as the rational <<numerator, denominator>>.
FloatDiv(n, d) ==
    LET s == Norm(n, d, 1, 1)
        N2 == n * s.su
        D2 == d * s.sd
        m0 == N2 \div D2
        r == N2 % D2
        m == IF 2 * r > D2 \/ (2 * r = D2 /\ m0 % 2 = 1) THEN m0 + 1 ELSE m0
    IN  <<m * s.sd, s.su>>

\* math.floor of a non-negative rational.
Floor(q) == q[1] \div q[2]

\* The nearest integer, for the variant of DecimateFor below.
Nearest(q) == (2 * q[1] + q[2]) \div (2 * q[2])

DecimateFor_Nearest(rate) ==
    Max1(Nearest(FloatDiv(NATIVE_RATE_HZ * RateUnit, rate)))

\* accelerometer.main: max(1, int(math.floor(NATIVE_RATE_HZ / float(args.rate))))
DecimateFor(rate) ==
    Max1(Floor(FloatDiv(NATIVE_RATE_HZ * RateUnit, rate)))

\* accelerometer.main before the rate is looked at.
AccInit(rate) == [rate |-> rate, pc |-> "args", decimate |-> 0]

\* ------------------------------------------- motion_live.VibrationDetector
\* Accelerations are integers in units of 1e-9 g, energies (squared
\* magnitudes) in units of 1e-10 g^2, times in milliseconds.  A division
\* rounds down to the unit.

\* Units of acceleration in 1 g.
NANO == 1000000000

\* Acceleration units per energy-unit root: e = (mag / E_ROOT)^2.
E_ROOT == 10000

Abs(x) == IF x < 0 THEN 0 - x ELSE x

Max0_NoClamp(x) == x

Max0(x) == IF x < 0 THEN 0 ELSE x

\* __init__: the three STA/LTA timescales.
Scales == 0..2
sta_n == [i \in Scales |-> <<3, 15, 50>>[i + 1]]
lta_n == [i \in Scales |-> <<100, 500, 2000>>[i + 1]]
\* sta_lta_thresh_on = [3.0, 2.5, 2.0], sta_lta_thresh_off = [1.5, 1.3, 1.2],
\* in tenths.
thresh_on == [i \in Scales |-> <<30, 25, 20>>[i + 1]]
thresh_off == [i \in Scales |-> <<15, 13, 12>>[i + 1]]

\* lta = [1e-10, 1e-10, 1e-10]: one energy unit.
LTA_INIT == 1

\* cusum_k = 0.0005, cusum_h = 0.01, and the mean's gain 0.0001 as a divisor.
cusum_k == 500000
cusum_h == 10000000
CUSUM_MU_DIV == 10000

\* The re-arm interval of the event gate: 0.01 s.
REARM_MS == 10

\* Window sizes of the kurtosis and peak stages and their evaluation periods.
KURT_MAXLEN == 100
PEAK_MAXLEN == 200
STAT_MINLEN == 50
STAT_PERIOD == 10

DequeAppend_NoEvict(q, x, maxlen) == Append(q, x)

\* deque(maxlen=n).append(x)
DequeAppend(q, x, maxlen) ==
    IF Len(q) >= maxlen THEN Append(Tail(q), x) ELSE Append(q, x)

\* __init__
NewDetector ==
    [sample_count |-> 0, hp_ready |-> FALSE,
     hp_prev_raw |-> <<0, 0, 0>>, hp_prev_out |-> <<0, 0, 0>>,
     sta |-> [i \in Scales |-> 0], lta |-> [i \in Scales |-> LTA_INIT],
     sta_lta_active |-> [i \in Scales |-> FALSE],
     cusum_pos |-> 0, cusum_neg |-> 0, cusum_mu |-> 0,
     kurt_buf |-> <<>>, kurt_dec |-> 0, peak_buf |-> <<>>,
     events |-> <<>>, event_ts |-> <<>>, last_evt_t |-> 0]

\* hp_alpha * (prev_out + a - prev_raw), hp_alpha = 0.95
HighPass(prev_out, a, prev_raw) ==
    LET v == prev_out + a - prev_raw
    IN  19 * (v \div 20) + (19 * (v % 20)) \div 20

\* The largest r with r * r <= n.
RECURSIVE ISqrtFrom(_, _)
ISqrtFrom(n, r) == IF (r + 1) * (r + 1) > n THEN r ELSE ISqrtFrom(n, r + 1)

\* math.sqrt(hx*hx + hy*hy + hz*hz): exact along an axis, else to 1e-5 g.
Norm3(hx, hy, hz) ==
    IF hy = 0 /\ hz = 0 THEN Abs(hx)
    ELSE IF hx = 0 /\ hz = 0 THEN Abs(hy)
    ELSE IF hx = 0 /\ hy = 0 THEN Abs(hz)
    ELSE E_ROOT * ISqrtFrom((hx \div E_ROOT) * (hx \div E_ROOT)
                            + (hy \div E_ROOT) * (hy \div E_ROOT)
                            + (hz \div E_ROOT) * (hz \div E_ROOT), 0)

\* e = mag * mag
Energy(mag) == (mag \div E_ROOT) * (mag \div E_ROOT)

\* avg += (e - avg) / n
Smooth(avg, e, n) == avg + ((e - avg) \div n)

\* ratio = sta / (lta + 1e-30) compared with a threshold given in tenths;
\* 1e-30 is below the unit and decides only when lta is 0.
RatioAbove(s, l, t10) == IF l = 0 THEN s > 0 ELSE 10 * s > t10 * l
RatioBelow(s, l, t10) == IF l = 0 THEN s = 0 ELSE 10 * s < t10 * l

Fires_NoLatch(rs, rl, was, i) == RatioAbove(rs, rl, thresh_on[i])

\* The STA/LTA on-test of timescale i with the updated averages rs, rl.
Fires(rs, rl, was, i) == RatioAbove(rs, rl, thresh_on[i]) /\ ~was

\* One turn of the STA/LTA loop for timescale i: the new averages, the new
\* active flag, and whether a detection is appended.
StaLta(d, e, i) ==
    LET rs == Smooth(d.sta[i], e, sta_n[i])
        rl == Smooth(d.lta[i], e, lta_n[i])
        was == d.sta_lta_active[i]
        on == Fires(rs, rl, was, i)
    IN  [sta |-> rs, lta |-> rl, fired |-> on,
         active |-> IF on THEN TRUE
                    ELSE IF RatioBelow(rs, rl, thresh_off[i]) THEN FALSE
                    ELSE was]

AfterFire_Keep(a) == a

\* cusum_pos = 0.0 / cusum_neg = 0.0 after a detection.
AfterFire(a) == 0

Cusum_AllowanceAdded(mu, pos, neg, mag) ==
    LET m == mu + ((mag - mu) \div CUSUM_MU_DIV)
        p == Max0(pos + mag - m + cusum_k)
        n == Max0(neg - mag + m + cusum_k)
    IN  [mu |-> m,
         pos |-> IF p > cusum_h THEN AfterFire(p) ELSE p,
         neg |-> IF n > cusum_h THEN AfterFire(n) ELSE n,
         firedPos |-> p > cusum_h, firedNeg |-> n > cusum_h]

\* The CUSUM stage on one magnitude: mean, both accumulators, detections.
Cusum(mu, pos, neg, mag) ==
    LET m == mu + ((mag - mu) \div CUSUM_MU_DIV)
        p == Max0(pos + mag - m - cusum_k)
        n == Max0(neg - mag + m - cusum_k)
    IN  [mu |-> m,
         pos |-> IF p > cusum_h THEN AfterFire(p) ELSE p,
         neg |-> IF n > cusum_h THEN AfterFire(n) ELSE n,
         firedPos |-> p > cusum_h, firedNeg |-> n > cusum_h]

RECURSIVE SumOf(_, _)
SumOf(f, n) == IF n = 0 THEN 0 ELSE f[n] + SumOf(f, n - 1)

\* The deviations of a kurtosis window are kept to KURT_Q steps either way,
\* so that their fourth powers add up within the integers.
KURT_Q == 20

\* a > b * c for b > 0, without forming the product.
ExceedsProduct(a, b, c) == (a \div b > c) \/ (a \div b = c /\ a % b > 0)

\* k = m4 / (m2 * m2 + 1e-30) > 6 over the window buf, with the mean taken
\* out exactly: d_i = n * x_i - sum(buf), k = n * sum(d^4) / (sum(d^2))^2,
\* the d_i counted in the unit u that keeps them within KURT_Q.
KurtosisAbove6(buf) ==
    LET n == Len(buf)
        x == [j \in 1..n |-> buf[j] \div E_ROOT]
        tot == SumOf(x, n)
        d == [j \in 1..n |-> n * x[j] - tot]
        top == CHOOSE v \in {Abs(d[j]) : j \in 1..n} : \A j \in 1..n : Abs(d[j]) <= v
        u == top \div KURT_Q + 1
        dq == [j \in 1..n |-> IF d[j] < 0 THEN 0 - (Abs(d[j]) \div u) ELSE d[j] \div u]
        s2 == SumOf([j \in 1..n |-> dq[j] * dq[j]], n)
        s4 == SumOf([j \in 1..n |-> dq[j] * dq[j] * dq[j] * dq[j]], n)
    IN  s2 > 0 /\ ExceedsProduct(n * s4, s2, 6 * s2)

\* sorted(xs)[k], k counted from 0: the value with at most k values below it
\* and more than k values not above it.
Ranked(xs, k) ==
    CHOOSE v \in {xs[j] : j \in 1..Len(xs)} :
        /\ Cardinality({j \in 1..Len(xs) : xs[j] < v}) <= k
        /\ Cardinality({j \in 1..Len(xs) : xs[j] <= v}) > k

\* The peak stage's tier for magnitude mag over the window buf:
\* dev = |mag - median| / (1.4826 * mad + 1e-30) against 8.0, 5.0, 3.5, 2.0.
PeakTier(buf, mag) ==
    LET n == Len(buf)
        median == Ranked(buf, n \div 2)
        mad == Ranked([j \in 1..n |-> Abs(buf[j] - median)], n \div 2) \div E_ROOT
        dev == Abs(mag - median) \div E_ROOT
        Above(t10) == IF mad = 0 THEN dev > 0 ELSE dev * 100000 > t10 * 14826 * mad
    IN  IF Above(80) THEN "majeur"
        ELSE IF Above(50) THEN "fort"
        ELSE IF Above(35) THEN "moyen"
        ELSE IF Above(20) THEN "micro"
        ELSE "none"

\* dev > t10 / 10 for the window buf and the magnitude mag.
DevAbove(buf, mag, t10) ==
    LET n == Len(buf)
        median == Ranked(buf, n \div 2)
        mad == Ranked([j \in 1..n |-> Abs(buf[j] - median)], n \div 2) \div E_ROOT
        dev == Abs(mag - median) \div E_ROOT
    IN  IF mad = 0 THEN dev > 0 ELSE dev * 100000 > t10 * 14826 * mad

\* The tiers and their thresholds, in tenths, as the code tests them.
Tiers == <<<<"majeur", 80>>, <<"fort", 50>>, <<"moyen", 35>>, <<"micro", 20>>>>

PeakEvts_EveryTier(buf, mag) ==
    LET hit == SelectSeq(Tiers, LAMBDA t : DevAbove(buf, mag, t[2]))
    IN  [j \in 1..Len(hit) |-> <<"PEAK", hit[j][1]>>]

\* The detections the peak stage appends to evts in one evaluation.
PeakEvts(buf, mag) ==
    LET tier == PeakTier(buf, mag)
    IN  IF tier # "none" THEN <<<<"PEAK", tier>>>> ELSE <<>>

\* set(d[0] for d in detections)
Sources(detections) == {detections[j][1] : j \in 1..Len(detections)}

NumSources_All(detections) == Len(detections)

\* ns = len(sources)
NumSources(detections) == Cardinality(Sources(detections))

\* _classify: the severity of an event from its detections and amplitude.
Severity(detections, amp) ==
    LET sources == Sources(detections)
        ns == NumSources(detections)
    IN  IF ns >= 4 /\ amp > 50000000 THEN "CHOC_MAJEUR"
        ELSE IF ns >= 3 /\ amp > 20000000 THEN "CHOC_MOYEN"
        ELSE IF "PEAK" \in sources /\ amp > 5000000 THEN "MICRO_CHOC"
        ELSE IF ("STA/LTA" \in sources \/ "CUSUM" \in sources) /\ amp > 3000000
             THEN "VIBRATION"
        ELSE IF amp > 1000000 THEN "VIB_LEGERE"
        ELSE "MICRO_VIB"

\* _classify: the record appended to events (without its display strings and
\* frequency bands).
Event(detections, t, amp) ==
    [time |-> t, sev |-> Severity(detections, amp), amp |-> amp,
     src |-> Sources(detections), nsrc |-> NumSources(detections)]

Rearmed_Always(t_now, last) == TRUE

Rearmed_SameInstant(t_now, last) == t_now - last >= 0

\* (t_now - self._last_evt_t) > 0.01
Rearmed(t_now, last) == t_now - last > REARM_MS

EmitLogs_Deferred(events, event_ts, last, evts, t_now, mag) ==
    IF Rearmed(t_now, last)
    THEN [events |-> DequeAppend(events, Event(evts, t_now, mag), EventsMax),
          event_ts |-> DequeAppend(event_ts, t_now, EventTsMax),
          last_evt_t |-> t_now, emitted |-> TRUE]
    ELSE [events |-> events, event_ts |-> event_ts, last_evt_t |-> last,
          emitted |-> FALSE]

\* The end of process(): with detections and past the re-arm interval, the
\* time stamp and the classified event are appended to their logs.
EmitLogs(events, event_ts, last, evts, t_now, mag) ==
    IF evts # <<>> /\ Rearmed(t_now, last)
    THEN [events |-> DequeAppend(events, Event(evts, t_now, mag), EventsMax),
          event_ts |-> DequeAppend(event_ts, t_now, EventTsMax),
          last_evt_t |-> t_now, emitted |-> TRUE]
    ELSE [events |-> events, event_ts |-> event_ts, last_evt_t |-> last,
          emitted |-> FALSE]

KurtDue_ByLength(kdec, n) == n >= STAT_MINLEN

\* if self._kurt_dec >= 10 and len(self.kurt_buf) >= 50
KurtDue(kdec, n) == kdec >= STAT_PERIOD /\ n >= STAT_MINLEN

OnFirst_RunsStages(d, ax, ay, az) ==
    [d EXCEPT !.sample_count = d.sample_count + 1,
              !.hp_prev_raw = <<ax, ay, az>>,
              !.hp_prev_out = <<0, 0, 0>>,
              !.hp_ready = TRUE,
              !.kurt_buf = Append(d.kurt_buf, 0),
              !.peak_buf = Append(d.peak_buf, 0)]

\* if not self.hp_ready: the filter memory is set from the sample.
OnFirst(d, ax, ay, az) ==
    [d EXCEPT !.sample_count = d.sample_count + 1,
              !.hp_prev_raw = <<ax, ay, az>>,
              !.hp_prev_out = <<0, 0, 0>>,
              !.hp_ready = TRUE]

\* process(ax, ay, az, t_now): the detector afterwards, the detections
\* (evts) of this call, the magnitude appended to the waveform, whether the
\* statistics were evaluated and whether an event was appended.
Process(d, ax, ay, az, t_now) ==
    IF ~d.hp_ready
    THEN [det |-> OnFirst(d, ax, ay, az), evts |-> <<>>, mag |-> 0, ran |-> FALSE,
          kurt |-> FALSE, peak |-> FALSE, emitted |-> FALSE]
    ELSE
    LET count == d.sample_count + 1
        hx == HighPass(d.hp_prev_out[1], ax, d.hp_prev_raw[1])
        hy == HighPass(d.hp_prev_out[2], ay, d.hp_prev_raw[2])
        hz == HighPass(d.hp_prev_out[3], az, d.hp_prev_raw[3])
        mag == Norm3(hx, hy, hz)
        e == Energy(mag)
        sl == [i \in Scales |-> StaLta(d, e, i)]
        evSta == SelectSeq(<<<<"STA/LTA", 0>>, <<"STA/LTA", 1>>, <<"STA/LTA", 2>>>>,
                           LAMBDA x : sl[x[2]].fired)
        cu == Cusum(d.cusum_mu, d.cusum_pos, d.cusum_neg, mag)
        evCu == (IF cu.firedPos THEN <<<<"CUSUM", "pos">>>> ELSE <<>>)
                \o (IF cu.firedNeg THEN <<<<"CUSUM", "neg">>>> ELSE <<>>)
        kbuf == DequeAppend(d.kurt_buf, mag, KURT_MAXLEN)
        kdec == d.kurt_dec + 1
        kurtRuns == KurtDue(kdec, Len(kbuf))
        evKu == IF kurtRuns /\ KurtosisAbove6(kbuf)
                THEN <<<<"KURTOSIS", "k">>>> ELSE <<>>
        pbuf == DequeAppend(d.peak_buf, mag, PEAK_MAXLEN)
        peakRuns == Len(pbuf) >= STAT_MINLEN /\ count % STAT_PERIOD = 0
        evPk == IF peakRuns THEN PeakEvts(pbuf, mag) ELSE <<>>
        evts == evSta \o evCu \o evKu \o evPk
        logs == EmitLogs(d.events, d.event_ts, d.last_evt_t, evts, t_now, mag)
    IN  [det |-> [sample_count |-> count, hp_ready |-> TRUE,
                  hp_prev_raw |-> <<ax, ay, az>>, hp_prev_out |-> <<hx, hy, hz>>,
                  sta |-> [i \in Scales |-> sl[i].sta],
                  lta |-> [i \in Scales |-> sl[i].lta],
                  sta_lta_active |-> [i \in Scales |-> sl[i].active],
                  cusum_pos |-> cu.pos, cusum_neg |-> cu.neg, cusum_mu |-> cu.mu,
                  kurt_buf |-> kbuf,
                  kurt_dec |-> IF kurtRuns THEN 0 ELSE kdec,
                  peak_buf |-> pbuf,
                  events |-> logs.events, event_ts |-> logs.event_ts,
                  last_evt_t |-> logs.last_evt_t],
          evts |-> evts, mag |-> mag, ran |-> TRUE,
          kurt |-> kurtRuns, peak |-> peakRuns, emitted |-> logs.emitted]

\* The clock when the detector is constructed, far above the re-arm
\* interval as any time.time() is.
T0 == 1000

\* The x accelerations the sensor reports: rest and a knock of 0.05 g.
Levels == {0, NANO \div 20}

\* Nothing processed yet: no detections, no timescale has fired, every
\* timescale counts as having been below its off-threshold.
NewLog == [x |-> 0, flips |-> 0, polls |-> 0, evts |-> <<>>, emitted |-> FALSE,
           emits |-> 0, dropped |-> FALSE,
           nfire |-> [i \in Scales |-> 0], low |-> [i \in Scales |-> TRUE]]

\* The means the magnitude rests at before it shifts: 0 and 0.002 g.
BaseLevels == {0, 2000000}

\* The steps the magnitude shifts by, either way: below cusum_k, 2 % above
\* it, twice it and six times it.
Steps == {400000, 510000, 1000000, 3000000}

\* The CUSUM stage with its mean adapted to the level m0, the magnitude
\* about to stay at m0 + step.
CusInit(m0, step) ==
    [mu |-> m0, pos |-> 0, neg |-> 0, mag |-> m0 + step, step |-> step, n |-> 0,
     fired |-> FALSE, last |-> {}]

\* The detectors a detection names in its first field.
SourceNames == {"STA/LTA", "CUSUM", "KURTOSIS", "PEAK"}

\* The amplitudes _classify is tried on: each threshold of the chain, the
\* next value above it, and 0.
Amps == {0} \cup UNION {{a, a + 1} : a \in {1000000, 3000000, 5000000, 20000000, 50000000}}

\* _classify about to be called with detections and amp.
ClsInit(detections, amp) == [detections |-> detections, amp |-> amp, events |-> <<>>]

\* ------------------------------------------- start-up, shutdown, exit status

\* The commands: the three consumers of a sensor_worker, and
\* run_sensor_source, which reads the sensor in its own process.
Progs == Kinds \cup {"run_sensor_source"}

\* accelerometer.main uses lib.bootstrap.require_root, which re-executes the
\* command under sudo when it can.
SudoReexec(prog) == prog = "accelerometer"

\* gyroscope.main and run_sensor_source call install_sigpipe_default():
\* signal.signal(signal.SIGPIPE, signal.SIG_DFL).  The others keep Python's
\* start-up disposition, under which a write to a broken pipe raises
\* BrokenPipeError.
SigPipe(prog) == IF prog \in {"gyroscope", "run_sensor_source"} THEN "default" ELSE "ignore"

StopWorker_KillAtOnce(prog, alive, stubborn) ==
    IF alive THEN <<"kill", "join">> ELSE <<>>

\* The finally block's handling of the worker, as the calls it makes:
\* motion_live.main kills and joins; accelerometer.main and gyroscope.main
\* terminate, join, and kill and join again if the worker is still alive.
StopWorker(prog, alive, stubborn) ==
    IF ~alive THEN <<>>
    ELSE IF prog = "motion_live" THEN <<"kill", "join">>
    ELSE <<"terminate", "join">> \o (IF stubborn THEN <<"kill", "join">> ELSE <<>>)

\* The statements of the finally block, in program order.
Plan(prog) ==
    IF prog = "motion_live" THEN <<"stop_worker", "output", "close", "unlink">>
    ELSE IF prog = "accelerometer" THEN <<"flush", "stop_worker", "close", "unlink">>
    ELSE IF prog = "gyroscope" THEN <<"stop_worker", "close", "unlink">>
    ELSE <<"stream_close">>

\* A command about to check for root: effective uid 0 or not, sudo usable
\* or not, a worker that dies on SIGTERM within the join timeout or not.
CmdInit(prog, euid0, sudo, stubborn) ==
    [prog |-> prog, pc |-> "root", euid0 |-> euid0, sudo |-> sudo,
     running |-> TRUE, walive |-> FALSE, stubborn |-> stubborn,
     pending |-> FALSE, pipe_broken |-> FALSE, fi |-> 1, ret |-> "none",
     cause |-> "none", log |-> <<>>, status |-> "running"]

\* ------------------------------------------------------ the stream header

\* read_header reads at most this many bytes of rate field.
HEADER_RATE_MAX == 20

\* iter_chunks' default chunk_bytes.
CHUNK_BYTES == 16384

\* Optional[float]: None, or a value.
None == [given |-> FALSE, value |-> 0]

Some(v) == [given |-> TRUE, value |-> v]

\* MAGIC = b"MSIG1 ", byte by byte.
MAGIC == <<"M", "S", "I", "G", "1", " ">>

\* The bytes a rate field is made of here: digits, a sign, the letters of
\* "nan", and a blank.
FieldBytes == {"0", "1", "-", "n", "a", " "}

DigitChars == <<"0", "1", "2", "3", "4", "5", "6", "7", "8", "9">>

Digits == {DigitChars[i] : i \in 1..10}

\* The value of a decimal digit.
DigitValue(c) == (CHOOSE i \in 1..10 : DigitChars[i] = c) - 1

\* stream.read(n) at position pos: at most n bytes, fewer only at the end.
ReadBytes(stream, pos, n) ==
    SubSeq(stream, pos + 1, IF pos + n <= Len(stream) THEN pos + n ELSE Len(stream))

\* str.strip(): blanks at both ends are dropped.
RECURSIVE Strip(_)
Strip(t) ==
    IF t = <<>> THEN t
    ELSE IF Head(t) = " " THEN Strip(Tail(t))
    ELSE IF t[Len(t)] = " " THEN Strip(SubSeq(t, 1, Len(t) - 1))
    ELSE t

\* The value of a string of decimal digits.
RECURSIVE DecimalValue(_)
DecimalValue(t) ==
    IF t = <<>> THEN 0
    ELSE 10 * DecimalValue(SubSeq(t, 1, Len(t) - 1)) + DigitValue(t[Len(t)])

\* float(text.strip()): an optional sign, then digits or "nan"; anything
\* else is a ValueError.
ParseFloat(text) ==
    LET t == Strip(text)
        neg == t # <<>> /\ Head(t) = "-"
        u == IF neg THEN Tail(t) ELSE t
    IN  IF u = <<"n", "a", "n">> THEN [kind |-> "nan", value |-> 0]
        ELSE IF u # <<>> /\ \A i \in 1..Len(u) : u[i] \in Digits
        THEN [kind |-> "number", value |-> IF neg THEN 0 - DecimalValue(u) ELSE DecimalValue(u)]
        ELSE [kind |-> "ValueError", value |-> 0]

\* rate <= 0 on a float: false when the float is a NaN.
NotPositive(r) == r.kind = "number" /\ r.value <= 0

\* The bytes the loop over range(HEADER_RATE_MAX) collects from position
\* pos: up to the newline or the end of the input, and the position after.
RECURSIVE RateBytes(_, _, _)
RateBytes(stream, pos, left) ==
    IF left = 0 \/ pos >= Len(stream) THEN [text |-> <<>>, pos |-> pos]
    ELSE IF stream[pos + 1] = "\n" THEN [text |-> <<>>, pos |-> pos + 1]
    ELSE LET rest == RateBytes(stream, pos + 1, left - 1)
         IN  [text |-> <<stream[pos + 1]>> \o rest.text, pos |-> rest.pos]

\* read_header: what it raises, or the rate and prefix it returns, and how
\* far it has read.
read_header(stream, raw, sample_rate) ==
    LET prefix == ReadBytes(stream, 0, Len(MAGIC))
        rb == RateBytes(stream, Len(MAGIC), HEADER_RATE_MAX)
        rate == ParseFloat(rb.text)
    IN  IF prefix = <<>> THEN [raises |-> "EOFError"]
        ELSE IF prefix = MAGIC
        THEN IF rb.text = <<>> THEN [raises |-> "StreamFormatError"]
             ELSE IF rate.kind = "ValueError" THEN [raises |-> "StreamFormatError"]
             ELSE IF NotPositive(rate) THEN [raises |-> "StreamFormatError"]
             ELSE [raises |-> "none", rate |-> rate, prefix |-> <<>>, pos |-> rb.pos]
        ELSE IF raw
        THEN IF ~sample_rate.given \/ sample_rate.value <= 0
             THEN [raises |-> "StreamFormatError"]
             ELSE [raises |-> "none", rate |-> [kind |-> "number", value |-> sample_rate.value],
                   prefix |-> prefix, pos |-> Len(prefix)]
        ELSE [raises |-> "StreamFormatError"]

\* Standard input holding stream, and the arguments of from_stdin.
HdrInit(stream, raw, sample_rate) ==
    [stream |-> stream, raw |-> raw, sample_rate |-> sample_rate, pc |-> "start",
     pos |-> 0, raised |-> "none", reader |-> <<>>, yielded |-> 0]

HdrIdle == hdr = HdrInit(<<>>, FALSE, None)

\* ------------------------------------------------------ the header written

\* The two writers of a header.
Writers == {"FloatSignalWriter", "accelerometer"}

\* Sample rates are counted in quarters of a hertz.
RateQ == 4

\* round(x) of x = q / RateQ: to the nearest integer, a tie to the even one.
Round(q) ==
    LET fl == q \div RateQ
        twice == 2 * (q % RateQ)
    IN  IF twice < RateQ THEN fl
        ELSE IF twice > RateQ THEN fl + 1
        ELSE IF fl % 2 = 0 THEN fl ELSE fl + 1

\* f"{n}" of an int n >= 0.
RECURSIVE Decimal(_)
Decimal(n) ==
    IF n < 10 THEN <<DigitChars[n + 1]>>
    ELSE Decimal(n \div 10) \o <<DigitChars[(n % 10) + 1]>>

\* write_header: MAGIC, the rounded rate, a newline.
HeaderBytes(q) == MAGIC \o Decimal(Round(q)) \o <<"\n">>

\* The writer takes the rate: accelerometer.main refuses a rate that is not
\* in (0, NATIVE_RATE_HZ]; FloatSignalWriter takes what it is given.
Accepts(writer, q) ==
    writer = "accelerometer" => (q > 0 /\ q <= NATIVE_RATE_HZ * RateQ)

RtInit(writer, q, npay) ==
    [writer |-> writer, q |-> q, npay |-> npay, pc |-> "write", stream |-> <<>>,
     res |-> [raises |-> "none"]]

RtIdle == rt = RtInit("FloatSignalWriter", RateQ, 0)

\* ------------------------------------------------------------ raw streams

\* np.frombuffer(payload, dtype="<f4"): one sample for each four bytes, in
\* order; a sample is told by its four bytes.
RECURSIVE Decode(_)
Decode(bytes) ==
    IF Len(bytes) < 4 THEN <<>>
    ELSE <<SubSeq(bytes, 1, 4)>> \o Decode(SubSeq(bytes, 5, Len(bytes)))

\* Standard input holding stream, read in raw mode; out is what iter_chunks
\* has yielded so far, chunk after chunk.
RawInit(stream, sample_rate) ==
    [stream |-> stream, raw |-> TRUE, sample_rate |-> sample_rate, pc |-> "start",
     pos |-> 0, raised |-> "none", reader |-> <<>>, yielded |-> 0, out |-> <<>>]

\* -------------------------------------------------------------- heartbeat

\* VibrationDetector(fs=100).
FS == 100

\* hr_buf holds 10 s of samples; detect_heartbeat wants 5 s of them.
HR_WINDOW_S == 10
HR_MIN_S == 5

Min(a, b) == IF a < b THEN a ELSE b

\* sum(buf[lo..hi]).
RECURSIVE Total(_, _, _)
Total(buf, lo, hi) ==
    IF lo > hi THEN 0
    ELSE IF lo = hi THEN buf[lo]
    ELSE LET mid == (lo + hi) \div 2
         IN  Total(buf, lo, mid) + Total(buf, mid + 1, hi)

\* sum(centered[i] * centered[i + lag] for i in lo..hi), with
\* centered[i] = buf[i] - mean counted in units of 1/n: n * buf[i] - s,
\* s the sum of buf.
RECURSIVE Corr(_, _, _, _, _)
Corr(buf, s, lag, lo, hi) ==
    IF lo > hi THEN 0
    ELSE IF lo = hi
    THEN (Len(buf) * buf[lo] - s) * (Len(buf) * buf[lo + lag] - s)
    ELSE LET mid == (lo + hi) \div 2
         IN  Corr(buf, s, lag, lo, mid) + Corr(buf, s, lag, mid + 1, hi)

\* The lags searched: range(lag_lo, lag_hi).
LagLo == (FS * 3) \div 10

LagHi(n) == Min(FS, n \div 2)

\* The loop over the lags from lag to hi - 1: the first lag of the greatest
\* correlation, if that is greater than the best so far.
RECURSIVE BestLag(_, _, _, _, _, _)
BestLag(buf, s, lag, hi, best_s, best_lag) ==
    IF lag >= hi THEN [s |-> best_s, lag |-> best_lag]
    ELSE LET c == Corr(buf, s, lag, 1, Len(buf) - lag)
         IN  IF c > best_s
             THEN BestLag(buf, s, lag + 1, hi, c, lag)
             ELSE BestLag(buf, s, lag + 1, hi, best_s, best_lag)

\* best_r > 0.15 for best_r = s / var: 20 * s > 3 * var, without the
\* products.
Confident_Always(s, var) == TRUE

Confident(s, var) == s > 3 * (var \div 20) + (3 * (var % 20)) \div 20

NoHeartbeat == [given |-> FALSE, lag |-> 0, s |-> 0, var |-> 1]

\* detect_heartbeat on hr_buf = buf: hr_bpm is 60 / (lag / fs) when given,
\* hr_confidence is min(1, s / var).
detect_heartbeat(buf) ==
    LET n == Len(buf)
        s == Total(buf, 1, n)
    IN  IF n < FS * HR_MIN_S THEN NoHeartbeat
        ELSE LET var == Corr(buf, s, 0, 1, n)
             IN  IF var = 0 THEN NoHeartbeat
                 ELSE IF LagLo >= LagHi(n) THEN NoHeartbeat
                 ELSE LET best == BestLag(buf, s, LagLo, LagHi(n), 0 - var, LagLo)
                      IN  IF Confident(best.s, var)
                          THEN [given |-> TRUE, lag |-> best.lag,
                                s |-> Min(best.s, var), var |-> var]
                          ELSE NoHeartbeat

\* A train of pulses w samples wide, one every period samples.
PulseTrain(period, w, n) == [i \in 1..n |-> IF i % period < w THEN 1 ELSE 0]

HbInit(period, w, n) ==
    [period |-> period, w |-> w, buf |-> PulseTrain(period, w, n), pc |-> "idle",
     hr |-> NoHeartbeat]

HbIdle == hb = HbInit(FS, 0, 0)

\* -------------------------------------------------------- the peak stage

\* peak_buf at an evaluation: n magnitudes spread around 0.001 g, the
\* last of them, mag, off the middle one by dev units of 1e-5 g.
PeakWindow(n, spread, dev) ==
    [j \in 1..n |-> IF j = n THEN 100 * E_ROOT + dev * E_ROOT
                    ELSE 100 * E_ROOT + spread * ((j % 5) - 2) * E_ROOT]

PkInit(n, spread, dev) ==
    [buf |-> PeakWindow(n, spread, dev), pc |-> "idle", evts |-> <<>>]

PkIdle == pk = PkInit(STAT_MINLEN, 0, 0)

\* ------------------------------------------- an exception inside process

\* A sample is one process() returns from, or one on which a stage of
\* process() raises (as (x - mu) ** 4 of the kurtosis stage does on a
\* magnitude whose fourth power is no float: OverflowError).
SampleKinds == {"ok", "faulty"}

\* The part of the detector that tells how far process() got: the samples
\* counted, the samples appended to kurt_buf, and the calls that returned.
PipeInit(batch) ==
    [batch |-> batch, i |-> 1, pc |-> "for", sample_count |-> 0, kurt_len |-> 0,
     returned |-> 0, before |-> <<0, 0>>, status |-> "running"]

PipeIdle == pipe = PipeInit(<<>>)

\* What the for loop of main does with an exception of det.process: it has
\* no handler, the exception leaves the loop.
OnException(p) == [p EXCEPT !.pc = "raised"]

\* ---------------------------------------------------------- the event logs

\* The logs of a new detector, the clock, and every event emitted so far.
LgInit ==
    [events |-> <<>>, event_ts |-> <<>>, last_evt_t |-> 0, t |-> T0, calls |-> 0,
     hist |-> <<>>]

LgIdle == lg = LgInit

\* --------------------------------------------------- Mahony orientation

\* Quaternion components, unit vectors and angular rates (rad/s) are
\* counted in 1/QU; the integral error in 1/QU^2; accelerations in tenths
\* of a g; dt in ms.
QU == 1000

\* if a_norm < 0.3, on the squares, in tenths of a g.
GATE_SQ == 9

\* self._ki = 0.05 is 1 / KI_DIV; self._kp = 1.0.
KI_DIV == 20

\* The largest r in lo..hi with r * r <= n.
RECURSIVE ISqrtIn(_, _, _)
ISqrtIn(n, lo, hi) ==
    IF lo >= hi THEN lo
    ELSE LET mid == (lo + hi + 1) \div 2
         IN  IF mid * mid <= n THEN ISqrtIn(n, mid, hi) ELSE ISqrtIn(n, lo, mid - 1)

NormSq(a) == a[1] * a[1] + a[2] * a[2] + a[3] * a[3]

\* A float that may be a zero: its value and, for a zero, its sign bit.
Fl(v, negzero) == [v |-> v, neg |-> (v < 0 \/ (v = 0 /\ negzero))]

\* -x on floats: a zero changes its sign bit too.
Neg(x) == [v |-> 0 - x.v, neg |-> ~x.neg]

\* math.atan2(y, x) in eighths of a turn, for arguments that are zero or of
\* equal size; the zeros count with their sign bit as in C.
Atan2(y, x) ==
    IF y.v = 0 THEN (IF x.neg THEN (IF y.neg THEN -4 ELSE 4) ELSE 0)
    ELSE IF x.v = 0 THEN (IF y.v > 0 THEN 2 ELSE -2)
    ELSE IF x.v > 0 THEN (IF y.v > 0 THEN 1 ELSE -1)
    ELSE (IF y.v > 0 THEN 3 ELSE -3)

\* cos and sin of k sixteenths of a turn, k in -4..4, in 1/QU.
CosTable == <<1000, 924, 707, 383, 0>>

Cos16(k) == CosTable[Abs(k) + 1]

Sin16(k) == IF k < 0 THEN 0 - CosTable[5 - Abs(k)] ELSE CosTable[5 - Abs(k)]

\* The first valid sample: the quaternion of roll and pitch of gravity a.
GravityQuaternion(a) ==
    LET pitch0 == Atan2(Neg(Fl(a[1], FALSE)), Neg(Fl(a[3], FALSE)))
        roll0 == Atan2(Fl(a[2], FALSE), Neg(Fl(a[3], FALSE)))
        cp == Cos16(pitch0)
        sp == Sin16(pitch0)
        cr == Cos16(roll0)
        sr == Sin16(roll0)
    IN  <<(cr * cp) \div QU, (sr * cp) \div QU, (cr * sp) \div QU, (0 - sr * sp) \div QU>>

\* math.radians of degrees per second, in 1/QU rad/s.
Radians(dps) == (dps * 17453) \div 1000

\* The update after the first: the error between measured and estimated
\* gravity corrects the gyro rate, which is integrated over dt into the
\* quaternion; the quaternion is normalised.
Integrate(m, a, dt) ==
    LET n_u == ISqrtIn(NormSq(a) * 10000, 0, 2000)
        an == [j \in 1..3 |-> (a[j] * 100 * QU) \div n_u]
        qw == m.q[1]
        qx == m.q[2]
        qy == m.q[3]
        qz == m.q[4]
        vx == (2 * (qx * qz - qw * qy)) \div QU
        vy == (2 * (qw * qx + qy * qz)) \div QU
        vz == (qw * qw - qx * qx - qy * qy + qz * qz) \div QU
        ex == (an[2] * (0 - vz) - an[3] * (0 - vy)) \div QU
        ey == (an[3] * (0 - vx) - an[1] * (0 - vz)) \div QU
        ez == (an[1] * (0 - vy) - an[2] * (0 - vx)) \div QU
        ei == <<m.err_int[1] + (ex * dt) \div KI_DIV,
                m.err_int[2] + (ey * dt) \div KI_DIV,
                m.err_int[3] + (ez * dt) \div KI_DIV>>
        gx == Radians(m.gyro_latest[1]) + ex + ei[1] \div QU
        gy == Radians(m.gyro_latest[2]) + ey + ei[2] \div QU
        gz == Radians(m.gyro_latest[3]) + ez + ei[3] \div QU
        rw == qw + (((0 - qx * gx - qy * gy - qz * gz) \div QU) * dt) \div (2 * QU)
        rx == qx + (((qw * gx + qy * gz - qz * gy) \div QU) * dt) \div (2 * QU)
        ry == qy + (((qw * gy - qx * gz + qz * gx) \div QU) * dt) \div (2 * QU)
        rz == qz + (((qw * gz + qx * gy - qy * gx) \div QU) * dt) \div (2 * QU)
        n == ISqrtIn(rw * rw + rx * rx + ry * ry + rz * rz, 0, 2 * QU)
    IN  [m EXCEPT !.err_int = ei,
                  !.q = IF n > 0
                        THEN <<(rw * QU) \div n, (rx * QU) \div n, (ry * QU) \div n,
                               (rz * QU) \div n>>
                        ELSE <<rw, rx, ry, rz>>]

FirstUpdate_Integrates(m, a, dt) ==
    Integrate([m EXCEPT !.q = GravityQuaternion(a), !.init = TRUE], a, dt)

\* if not self._init: the quaternion from gravity alone, then return.
FirstUpdate(m, a, dt) == [m EXCEPT !.q = GravityQuaternion(a), !.init = TRUE]

\* update_with_accel(ax, ay, az, dt)
update_with_accel(m, a, dt) ==
    IF NormSq(a) < GATE_SQ THEN m
    ELSE IF ~m.init THEN FirstUpdate(m, a, dt)
    ELSE Integrate(m, a, dt)

\* MahonyOrientation(), with the history of the calls: their number, the
\* last acceleration handed over and the orientation before that call.
MahInit ==
    [q |-> <<QU, 0, 0, 0>>, err_int |-> <<0, 0, 0>>, init |-> FALSE,
     gyro_latest |-> <<0, 0, 0>>, calls |-> 0, a |-> <<0, 0, 0>>,
     was_init |-> FALSE]

MahIdle == mah = MahInit

\* ----------------------------------------------- the first process() call

\* N5 = fs * 5, the length of the waveform.
WAVE_MAXLEN == FS * 5

\* dwt_buffer = deque(maxlen=512)
DWT_MAXLEN == 512

\* The heartbeat band-pass on one magnitude: a high-pass with
\* hr_hp_alpha = fs / (fs + 2 pi 0.8) = 0.952 and a low-pass with
\* hr_lp_alpha = 6 pi / (6 pi + fs) = 0.159, both per mille.
HrBandpass(h, mag) ==
    LET v == h.hp_prev_out + mag - h.hp_prev_in
        hp_out == 952 * (v \div 1000) + (952 * (v % 1000)) \div 1000
        lp_out == 159 * (hp_out \div 1000) + 841 * (h.lp_prev \div 1000)
    IN  [hp_prev_in |-> mag, hp_prev_out |-> hp_out, lp_prev |-> lp_out]

\* __init__, with the buffers process() appends to beside the detector's
\* stages: waveform, dwt_buffer, the heartbeat filter and hr_buf; evts and
\* raw are the detections and the sample of the last call.
FstInit ==
    [det |-> NewDetector, waveform |-> <<>>, dwt_buffer |-> <<>>,
     hr |-> [hp_prev_in |-> 0, hp_prev_out |-> 0, lp_prev |-> 0], hr_buf |-> <<>>,
     evts |-> <<>>, raw |-> <<0, 0, 0>>]

FstIdle == fst = FstInit

\* ------------------------------------------- the schedule of the statistics

\* A new detector, with what the last process() call did: its detections,
\* whether it evaluated the kurtosis and the peak statistics; whether either
\* has been evaluated so far; the x acceleration and the knocks so far.
SchInit ==
    [det |-> NewDetector, evts |-> <<>>, kurt |-> FALSE, peak |-> FALSE,
     everKurt |-> FALSE, everPeak |-> FALSE, x |-> 0, knocks |-> 0]

SchIdle == sch = SchInit

\* ------------------------------------------------------ the linear resampler

\* Positions and the step are counted in 1/POS_Q of a sample, output values
\* in 1/POS_Q of the input's unit: with rates whose quotient is a multiple
\* of 1/POS_Q the doubles of the code are exact.
POS_Q == 4

\* self.step = float(input_rate) / float(output_rate)
StepOf(input_rate, output_rate) == (POS_Q * input_rate) \div output_rate

\* while self.pos < max_pos: one output per turn, from buf[i], buf[i + 1].
RECURSIVE Interpolate(_, _, _, _)
Interpolate(buf, pos, step, out) ==
    IF pos < POS_Q * (Len(buf) - 1)
    THEN LET i == pos \div POS_Q
             frac == pos % POS_Q
             a == buf[i + 1]
             b == buf[i + 2]
         IN  Interpolate(buf, pos + step, step, Append(out, POS_Q * a + (b - a) * frac))
    ELSE [pos |-> pos, out |-> out]

\* self.buf[trim:]
DropFirst(buf, trim) == IF trim >= Len(buf) THEN <<>> ELSE SubSeq(buf, trim + 1, Len(buf))

\* LinearResampler.process(chunk): the resampler afterwards and the list
\* returned.
ResamplerProcess(r, chunk) ==
    LET buf == r.buf \o chunk
    IN  IF Len(buf) < 2 THEN [buf |-> buf, pos |-> r.pos, out |-> <<>>]
        ELSE LET w == Interpolate(buf, r.pos, r.step, <<>>)
                 trim == w.pos \div POS_Q
             IN  [buf |-> DropFirst(buf, trim), pos |-> w.pos - POS_Q * trim, out |-> w.out]

\* LinearResampler(input_rate, output_rate) about to be fed input in chunks;
\* whole is what one process() call on all of input returns, out what the
\* calls so far have returned, last what the last call returned.
ResInit(input_rate, output_rate, input) ==
    [step |-> StepOf(input_rate, output_rate), buf |-> <<>>, pos |-> 0,
     input |-> input, fed |-> 0, out |-> <<>>, last |-> <<>>,
     whole |-> ResamplerProcess([step |-> StepOf(input_rate, output_rate),
                                 buf |-> <<>>, pos |-> 0], input).out]

ResIdle == res = ResInit(1, 1, <<>>)

\* ------------------------------------------------------------------- Init

InitState ==
    /\ write_idx = 0 /\ total_written = 0 /\ restarts = 0
    /\ slots = [p \in 0..(RING_CAP - 1) |-> <<0, 0, 0>>]
    /\ walive = FALSE /\ wpc = "none" /\ w_idx = 0 /\ w_total = 0 /\ w_rc = 0
    /\ decimate_ctr = 0 /\ orphans = 0
    /\ cpc = IF kind = "motion_live" THEN "loop" ELSE "start"
    /\ running = TRUE /\ worker = "none" /\ restart_count = 0 /\ last_total = 0
    /\ r_total = 0 /\ r_n = 0 /\ r_idx = 0 /\ r_i = 0 /\ samples = <<>>
    /\ exit_code = -1 /\ det_fed = <<>>
    /\ nstored = 0 /\ ret = <<>> /\ callLast = 0 /\ nreads = 0 /\ delivered = <<>>
    /\ dirty = {} /\ raced = FALSE /\ lagged = FALSE /\ quiet = FALSE

\* The components that a specification does not study stay as constructed.
DecIdle == dec = DecInit(1)
AccIdle == acc = AccInit(NATIVE_RATE_HZ * RateUnit)
DetIdle == det = NewDetector /\ now = T0 /\ dlog = NewLog

CusIdle == cus = CusInit(0, 0)

ClsIdle == cls = ClsInit(<<>>, 0)

CmdIdle == cmd = CmdInit("motion_live", TRUE, FALSE, FALSE)

AuxIdle == DecIdle /\ AccIdle /\ DetIdle /\ CusIdle /\ ClsIdle /\ CmdIdle /\ HdrIdle /\ RtIdle /\ HbIdle /\ PkIdle /\ PipeIdle /\ LgIdle /\ MahIdle /\ FstIdle /\ SchIdle /\ ResIdle

Init == kind \in Kinds /\ InitState /\ AuxIdle

\* --------------------------------------------------------------- producer

W_Boot_ResetsTotal ==
    /\ walive /\ wpc = "boot"
    /\ restarts' = w_rc
    /\ write_idx' = 0 /\ total_written' = 0
    /\ wpc' = "idle"
    /\ UNCHANGED <<slots, walive, w_idx, w_total, w_rc, decimate_ctr, orphans, rdr,
                   cons, hist>>
    /\ UNCHANGED aux

W_Boot_NoHeader ==
    /\ walive /\ wpc = "boot"
    /\ wpc' = "idle"
    /\ UNCHANGED <<shm, walive, w_idx, w_total, w_rc, decimate_ctr, orphans, rdr,
                   cons, hist>>
    /\ UNCHANGED aux

\* sensor_worker's start: it attaches the ring and stores its restart_count
\* argument into the header, before any callback is registered.
W_Boot ==
    /\ walive /\ wpc = "boot"
    /\ restarts' = w_rc
    /\ wpc' = "idle"
    /\ UNCHANGED <<write_idx, total_written, slots, walive, w_idx, w_total, w_rc,
                   decimate_ctr, orphans, rdr, cons, hist>>
    /\ UNCHANGED aux

\* on_report: a HID report arrives in the run loop.  A report of the IMU
\* length advances the decimation counter, and every Decimate-th one calls
\* shm_write_sample; a report of any other length does nothing.
OnReport ==
    /\ walive /\ wpc = "idle"
    /\ nstored < MaxWrites
    /\ \E len \in ReportLens :
          IF len = IMU_REPORT_LEN
          THEN IF decimate_ctr + 1 < Decimate
               THEN decimate_ctr' = decimate_ctr + 1 /\ wpc' = wpc
               ELSE decimate_ctr' = 0 /\ wpc' = "w_lidx"
          ELSE decimate_ctr' = decimate_ctr /\ wpc' = wpc
    /\ UNCHANGED <<shm, walive, w_idx, w_total, w_rc, orphans, rdr, cons, hist>>
    /\ UNCHANGED aux

\* shm_write_sample: idx, = struct.unpack_from('<I', buf, 0)
W_LoadIdx ==
    /\ walive /\ wpc = "w_lidx"
    /\ w_idx' = write_idx
    /\ wpc' = "w_slot"
    /\ UNCHANGED <<shm, walive, w_total, w_rc, decimate_ctr, orphans, rdr, cons, hist>>
    /\ UNCHANGED aux

W_StoreSlot_Blocking ==
    /\ walive /\ wpc = "w_slot"
    /\ nstored - last_total < RING_CAP
    /\ slots' = [slots EXCEPT ![w_idx] = RawSample(nstored + 1)]
    /\ wpc' = "w_idx"
    /\ nstored' = nstored + 1
    /\ dirty' = IF InRead THEN dirty \cup {w_idx} ELSE dirty
    /\ lagged' = (lagged \/ nstored + 1 - last_total >= RING_CAP)
    /\ quiet' = FALSE
    /\ UNCHANGED <<write_idx, total_written, restarts, walive, w_idx, w_total, w_rc,
                   decimate_ctr, orphans, rdr, cons, ret, callLast, nreads,
                   delivered, raced>>
    /\ UNCHANGED aux

\* shm_write_sample: struct.pack_into('<iii', buf, off, x_raw, y_raw, z_raw)
W_StoreSlot ==
    /\ walive /\ wpc = "w_slot"
    /\ slots' = [slots EXCEPT ![w_idx] = RawSample(nstored + 1)]
    /\ wpc' = "w_idx"
    /\ nstored' = nstored + 1
    /\ dirty' = IF InRead THEN dirty \cup {w_idx} ELSE dirty
    /\ lagged' = (lagged \/ nstored + 1 - last_total >= RING_CAP)
    /\ quiet' = FALSE
    /\ UNCHANGED <<write_idx, total_written, restarts, walive, w_idx, w_total, w_rc,
                   decimate_ctr, orphans, rdr, cons, ret, callLast, nreads,
                   delivered, raced>>
    /\ UNCHANGED aux

\* shm_write_sample: struct.pack_into('<I', buf, 0, (idx + 1) % RING_CAP)
W_StoreIdx ==
    /\ walive /\ wpc = "w_idx"
    /\ write_idx' = NextIdx(w_idx)
    /\ wpc' = "w_ltotal"
    /\ quiet' = FALSE
    /\ UNCHANGED <<total_written, restarts, slots, walive, w_idx, w_total, w_rc,
                   decimate_ctr, orphans, rdr, cons, nstored, ret, callLast, nreads,
                   delivered, dirty, raced, lagged>>
    /\ UNCHANGED aux

\* shm_write_sample: total, = struct.unpack_from('<Q', buf, 4)
W_LoadTotal ==
    /\ walive /\ wpc = "w_ltotal"
    /\ w_total' = total_written
    /\ wpc' = "w_stotal"
    /\ UNCHANGED <<shm, walive, w_idx, w_rc, decimate_ctr, orphans, rdr, cons, hist>>
    /\ UNCHANGED aux

\* shm_write_sample: struct.pack_into('<Q', buf, 4, total + 1)
W_StoreTotal ==
    /\ walive /\ wpc = "w_stotal"
    /\ total_written' = w_total + 1
    /\ wpc' = "idle"
    /\ w_idx' = 0 /\ w_total' = 0
    /\ quiet' = FALSE
    /\ UNCHANGED <<write_idx, restarts, slots, walive, w_rc, decimate_ctr, orphans,
                   rdr, cons, nstored, ret, callLast, nreads, delivered, dirty,
                   raced, lagged>>
    /\ UNCHANGED aux

\* The producer process exits or is killed, at any point of its run.
Die ==
    /\ walive
    /\ exit_code = -1
    /\ kind = "motion_live" => restart_count < MaxRestarts
    /\ walive' = FALSE
    /\ wpc' = "dead"
    /\ w_idx' = 0 /\ w_total' = 0
    /\ UNCHANGED <<shm, w_rc, decimate_ctr, orphans, rdr, cons, hist>>
    /\ UNCHANGED aux

\* --------------------------------------------------------------- consumer

NeedSpawn_Always == TRUE

\* motion_live.main: worker is None or not worker.is_alive()
NeedSpawn == worker = "none" \/ ~walive

RestartCount_Same(w, rc) == rc

\* motion_live.main: the restart counter the consumer spawns with.
RestartCount(w, rc) == IF w # "none" THEN rc + 1 ELSE rc

DetOnRespawn_NewDetector(d) == <<>>

\* motion_live.main: det is constructed once, before the loop, and the
\* respawn branch of the loop does not name it.
DetOnRespawn(d) == d

Batch_Whole(s) == s

\* motion_live.main: samples[-MAX_BATCH:], the batch det.process is run over.
Batch(s) == IF Len(s) > MAX_BATCH THEN SubSeq(s, Len(s) - MAX_BATCH + 1, Len(s)) ELSE s

\* multiprocessing.Process(target=sensor_worker, args=(name, rc, ...)).start()
Spawn(rc) ==
    /\ worker' = "proc"
    /\ orphans' = orphans + (IF walive THEN 1 ELSE 0)
    /\ walive' = TRUE
    /\ wpc' = "boot"
    /\ w_rc' = rc
    /\ w_idx' = 0 /\ w_total' = 0 /\ decimate_ctr' = 0

\* accelerometer.main, gyroscope.main: the worker is started once, with
\* restart_count 0, before the loop.
C_Start ==
    /\ cpc = "start"
    /\ Spawn(0)
    /\ cpc' = "loop"
    /\ UNCHANGED <<shm, rdr, kind, running, restart_count, last_total, exit_code,
                   det_fed, hist>>
    /\ UNCHANGED aux

\* The head of the consumer's loop: the running test and the supervision of
\* the worker.
C_Loop ==
    /\ cpc = "loop"
    /\ IF ~running
       THEN /\ cpc' = "finally"
            /\ UNCHANGED <<prod, worker, restart_count, det_fed>>
       ELSE IF kind = "motion_live"
       THEN /\ IF NeedSpawn
               THEN /\ restart_count' = RestartCount(worker, restart_count)
                    /\ Spawn(restart_count')
                    /\ det_fed' = DetOnRespawn(det_fed)
               ELSE UNCHANGED <<prod, worker, restart_count, det_fed>>
            /\ cpc' = "r_total"
       ELSE /\ cpc' = IF ~walive THEN "finally_err" ELSE "r_total"
            /\ UNCHANGED <<prod, worker, restart_count, det_fed>>
    /\ UNCHANGED <<shm, rdr, kind, running, last_total, exit_code, hist>>
    /\ UNCHANGED aux

\* shm_read_new returns (s, total) and the caller assigns
\* samples, last_total = shm_read_new(buf, last_total).
Return(s, total) ==
    /\ ret' = s
    /\ callLast' = last_total
    /\ last_total' = total
    /\ delivered' = delivered \o s
    /\ det_fed' = IF kind = "motion_live" THEN det_fed \o Batch(s) ELSE det_fed
    /\ nreads' = IF nreads < 2 THEN nreads + 1 ELSE nreads
    /\ r_total' = 0 /\ r_n' = 0 /\ r_idx' = 0 /\ r_i' = 0 /\ samples' = <<>>
    /\ cpc' = "loop"

\* shm_read_new: total is loaded, n_new computed; nothing new returns at once.
R_LoadTotal ==
    /\ cpc = "r_total"
    /\ LET total == total_written
           n == NNew(total, last_total)
       IN  IF n <= 0
           THEN Return(<<>>, total)
           ELSE /\ r_total' = total /\ r_n' = n
                /\ cpc' = "r_idx"
                /\ UNCHANGED <<r_idx, r_i, samples, last_total, det_fed, ret,
                               callLast, nreads, delivered>>
    /\ dirty' = {}
    /\ quiet' = TRUE
    /\ UNCHANGED <<shm, prod, kind, running, worker, restart_count, exit_code,
                   nstored, raced, lagged>>
    /\ UNCHANGED aux

\* shm_read_new: idx, = struct.unpack_from('<I', buf, 0)
R_LoadIdx ==
    /\ cpc = "r_idx"
    /\ r_idx' = write_idx
    /\ r_i' = 0
    /\ samples' = <<>>
    /\ cpc' = "r_slot"
    /\ UNCHANGED <<shm, prod, r_total, r_n, kind, running, worker, restart_count,
                   last_total, exit_code, det_fed, hist>>
    /\ UNCHANGED aux

\* shm_read_new: one turn of the loop over range(n_new); the last turn returns.
R_LoadSlot ==
    /\ cpc = "r_slot"
    /\ LET pos == Pos(Start(r_idx, r_n), r_i)
           s == Append(samples, ToG(slots[pos]))
       IN  /\ raced' = (raced \/ pos \in dirty)
           /\ IF r_i + 1 >= r_n
              THEN Return(s, r_total)
              ELSE /\ samples' = s /\ r_i' = r_i + 1
                   /\ UNCHANGED <<r_total, r_n, r_idx, cpc, last_total, det_fed,
                                  ret, callLast, nreads, delivered>>
    /\ UNCHANGED <<shm, prod, kind, running, worker, restart_count, exit_code,
                   nstored, dirty, lagged, quiet>>
    /\ UNCHANGED aux

\* _stop: SIGINT or SIGTERM clears the running flag.
Stop ==
    /\ running /\ exit_code = -1
    /\ running' = FALSE
    /\ UNCHANGED <<shm, prod, rdr, kind, cpc, worker, restart_count, last_total,
                   exit_code, det_fed, hist>>
    /\ UNCHANGED aux

\* The finally block: a live worker is stopped and joined, the shared memory
\* released; the program ends with status 1 after the RuntimeError, else 0.
C_Finally ==
    /\ cpc \in {"finally", "finally_err"}
    /\ walive' = FALSE
    /\ wpc' = IF walive THEN "dead" ELSE wpc
    /\ w_idx' = 0 /\ w_total' = 0
    /\ exit_code' = IF cpc = "finally_err" THEN 1 ELSE 0
    /\ cpc' = "done"
    /\ UNCHANGED <<shm, w_rc, decimate_ctr, orphans, rdr, kind, running, worker,
                   restart_count, last_total, det_fed, hist>>
    /\ UNCHANGED aux

\* ---------------------------------------------------------- specifications

WriteStep == W_LoadIdx \/ W_StoreSlot \/ W_StoreIdx \/ W_LoadTotal \/ W_StoreTotal

ProducerStep == W_Boot \/ OnReport \/ WriteStep

ReadStep == R_LoadTotal \/ R_LoadIdx \/ R_LoadSlot

\* The whole system: any consumer program, its producer, deaths and signals.
Next ==
    \/ ProducerStep
    \/ Die
    \/ C_Start
    \/ C_Loop
    \/ ReadStep
    \/ Stop
    \/ C_Finally

Spec == Init /\ [][Next]_vars

\* The ring alone: one producer that does not die and one consumer that
\* chains shm_read_new calls, every access interleaved freely.
RingInit == kind = "motion_live" /\ InitState /\ AuxIdle

RingNext == ProducerStep \/ C_Loop \/ ReadStep

SpecRing == RingInit /\ [][RingNext]_vars

\* The ring without concurrency: no write step during a read, no read step
\* during a write.
SeqNext ==
    \/ ~InRead /\ ProducerStep
    \/ ~InWrite /\ (C_Loop \/ ReadStep)

SpecSeq == RingInit /\ [][SeqNext]_vars

\* The report callbacks alone: one producer with decimation factor
\* dec.decimate, handed reports of either channel and any length in any order.
DecSpecInit ==
    /\ kind = "motion_live" /\ InitState
    /\ \E d \in 0..MaxDecimate : dec = DecInit(d)
    /\ AccIdle /\ DetIdle /\ CusIdle /\ ClsIdle /\ CmdIdle /\ HdrIdle /\ RtIdle /\ HbIdle /\ PkIdle /\ PipeIdle /\ LgIdle /\ MahIdle /\ FstIdle /\ SchIdle /\ ResIdle

Report ==
    /\ dec.calls < MaxReports
    /\ \E c \in Channels, len \in ReportLens :
          dec' = [dec EXCEPT !.calls = dec.calls + 1,
                             !.chan[c] = OnChannelReport(dec.chan[c], dec.decimate, len)]
    /\ UNCHANGED <<ring, acc, det, now, dlog, cus, cls, cmd, hdr, rt, hb, pk, pipe, lg, mah, fst, sch, res>>

DecNext == Report

SpecDec == DecSpecInit /\ [][DecNext]_vars

\* accelerometer.main from parse_args to the decimation factor.
AccSpecInit ==
    /\ kind = "accelerometer" /\ InitState
    /\ DecIdle /\ DetIdle /\ CusIdle /\ ClsIdle /\ CmdIdle /\ HdrIdle /\ RtIdle /\ HbIdle /\ PkIdle /\ PipeIdle /\ LgIdle /\ MahIdle /\ FstIdle /\ SchIdle /\ ResIdle
    /\ \E r \in Rates : acc = AccInit(r)

\* The range check on --rate, then decimate.
CheckRate ==
    /\ acc.pc = "args"
    /\ acc' = IF acc.rate <= 0 \/ acc.rate > NATIVE_RATE_HZ * RateUnit
              THEN [acc EXCEPT !.pc = "SystemExit"]
              ELSE [acc EXCEPT !.pc = "spawn", !.decimate = DecimateFor(acc.rate)]
    /\ UNCHANGED <<ring, dec, det, now, dlog, cus, cls, cmd, hdr, rt, hb, pk, pipe, lg, mah, fst, sch, res>>

AccNext == CheckRate

SpecAcc == AccSpecInit /\ [][AccNext]_vars

\* The detector alone, fed by motion_live.main's loop: the z axis carries
\* gravity, the x axis rests or is knocked.
DetSpecInit ==
    /\ kind = "motion_live" /\ InitState
    /\ DecIdle /\ AccIdle /\ DetIdle /\ CusIdle /\ ClsIdle /\ CmdIdle /\ HdrIdle /\ RtIdle /\ HbIdle /\ PkIdle /\ PipeIdle /\ LgIdle /\ MahIdle /\ FstIdle /\ SchIdle /\ ResIdle

\* A turn of the loop reads the clock: now = time.time().
Poll ==
    /\ dlog.polls < MaxPolls
    /\ \E dt \in {REARM_MS, REARM_MS + 1} : now' = now + dt
    /\ dlog' = [dlog EXCEPT !.polls = dlog.polls + 1, !.emits = 0]
    /\ UNCHANGED <<ring, dec, acc, det, cus, cls, cmd, hdr, rt, hb, pk, pipe, lg, mah, fst, sch, res>>

\* det.process(ax, ay, az, now) on the next sample of the batch.
Sample ==
    /\ det.sample_count < MaxSamples
    /\ \E ax \in Levels :
          /\ ax # dlog.x => dlog.flips < MaxFlips
          /\ \E r \in {Process(det, ax, 0, NANO, now)} :
             LET fired(i) == \E j \in 1..Len(r.evts) : r.evts[j] = <<"STA/LTA", i>>
             IN  /\ det' = r.det
                 /\ dlog' = [dlog EXCEPT
                       !.x = ax,
                       !.flips = IF ax # dlog.x THEN dlog.flips + 1 ELSE dlog.flips,
                       !.evts = r.evts,
                       !.emitted = r.emitted,
                       !.emits = IF r.emitted THEN dlog.emits + 1 ELSE dlog.emits,
                       !.dropped = (dlog.dropped \/ (r.evts # <<>> /\ ~r.emitted)),
                       !.nfire = [i \in Scales |->
                                    IF fired(i) /\ dlog.nfire[i] < 2
                                    THEN dlog.nfire[i] + 1 ELSE dlog.nfire[i]],
                       !.low = [i \in Scales |->
                                  IF fired(i) THEN FALSE
                                  ELSE IF r.ran /\ RatioBelow(r.det.sta[i], r.det.lta[i],
                                                             thresh_off[i])
                                       THEN TRUE
                                  ELSE dlog.low[i]]]
    /\ UNCHANGED <<ring, dec, acc, now, cus, cls, cmd, hdr, rt, hb, pk, pipe, lg, mah, fst, sch, res>>

DetNext == Poll \/ Sample

SpecDet == DetSpecInit /\ [][DetNext]_vars

\* The CUSUM stage alone: the magnitude has rested at a level, the mean has
\* adapted to it, and from now on every sample is at the shifted level.
CusSpecInit ==
    /\ kind = "motion_live" /\ InitState
    /\ DecIdle /\ AccIdle /\ DetIdle /\ ClsIdle /\ CmdIdle /\ HdrIdle /\ RtIdle /\ HbIdle /\ PkIdle /\ PipeIdle /\ LgIdle /\ MahIdle /\ FstIdle /\ SchIdle /\ ResIdle
    /\ \E m0 \in BaseLevels, st \in Steps, sign \in {-1, 1} :
          /\ m0 + sign * st >= 0
          /\ cus = CusInit(m0, sign * st)

\* One more sample of the shifted magnitude goes through the CUSUM stage.
ShiftedSample ==
    /\ cus.n < MaxShifted
    /\ \E c \in {Cusum(cus.mu, cus.pos, cus.neg, cus.mag)} :
          cus' = [cus EXCEPT !.mu = c.mu, !.pos = c.pos, !.neg = c.neg,
                             !.n = cus.n + 1,
                             !.fired = cus.fired \/ c.firedPos \/ c.firedNeg,
                             !.last = (IF c.firedPos THEN {"pos"} ELSE {})
                                      \cup (IF c.firedNeg THEN {"neg"} ELSE {})]
    /\ UNCHANGED <<ring, dec, acc, det, now, dlog, cls, cmd, hdr, rt, hb, pk, pipe, lg, mah, fst, sch, res>>

CusNext == ShiftedSample

SpecCus == CusSpecInit /\ [][CusNext]_vars

\* _classify alone, on any list of detections and any amplitude.
ClsSpecInit ==
    /\ kind = "motion_live" /\ InitState
    /\ DecIdle /\ AccIdle /\ DetIdle /\ CusIdle /\ CmdIdle /\ HdrIdle /\ RtIdle /\ HbIdle /\ PkIdle /\ PipeIdle /\ LgIdle /\ MahIdle /\ FstIdle /\ SchIdle /\ ResIdle
    /\ \E n \in 0..MaxDetections, amp \in Amps :
          \E names \in [1..n -> SourceNames] :
             cls = ClsInit([j \in 1..n |-> <<names[j], j>>], amp)

\* self._classify(evts, t_now, mag)
Classify ==
    /\ cls.events = <<>>
    /\ cls' = [cls EXCEPT !.events = <<Event(cls.detections, T0, cls.amp)>>]
    /\ UNCHANGED <<ring, dec, acc, det, now, dlog, cus, cmd, hdr, rt, hb, pk, pipe, lg, mah, fst, sch, res>>

ClsNext == Classify

SpecCls == ClsSpecInit /\ [][ClsNext]_vars

\* A command from its root check to its exit status, with what can happen
\* to it on the way: a signal, the worker's death, the reader of its
\* standard output going away.
CmdSpecInit ==
    /\ kind = "motion_live" /\ InitState
    /\ DecIdle /\ AccIdle /\ DetIdle /\ CusIdle /\ ClsIdle /\ HdrIdle /\ RtIdle /\ HbIdle /\ PkIdle /\ PipeIdle /\ LgIdle /\ MahIdle /\ FstIdle /\ SchIdle /\ ResIdle
    /\ \E prog \in Progs, euid0 \in BOOLEAN, sudo \in BOOLEAN, stubborn \in BOOLEAN :
          /\ sudo => SudoReexec(prog)
          /\ stubborn => prog \in Kinds
          /\ cmd = CmdInit(prog, euid0, sudo, stubborn)

CmdFrame == UNCHANGED <<ring, dec, acc, det, now, dlog, cus, cls, hdr, rt, hb, pk, pipe, lg, mah, fst, sch, res>>

\* require_root / the geteuid test, then the start of the worker.
RequireRoot ==
    /\ cmd.pc = "root"
    /\ cmd' = IF cmd.euid0
             THEN [cmd EXCEPT !.pc = "loop", !.walive = (cmd.prog \in Kinds)]
             ELSE IF cmd.sudo
             THEN [cmd EXCEPT !.euid0 = TRUE]
             ELSE [cmd EXCEPT !.pc = "done", !.cause = "no_root", !.status = "exit 1"]
    /\ CmdFrame

\* _stop: SIGINT or SIGTERM.
Signal ==
    /\ cmd.pc = "loop" /\ cmd.running
    /\ cmd' = [cmd EXCEPT !.running = FALSE]
    /\ CmdFrame

\* The worker process exits on its own.
WorkerExits ==
    /\ cmd.pc = "loop" /\ cmd.walive
    /\ cmd' = [cmd EXCEPT !.walive = FALSE]
    /\ CmdFrame

\* The process reading the command's standard output goes away.
ReaderCloses ==
    /\ cmd.pc = "loop" /\ ~cmd.pipe_broken
    /\ cmd' = [cmd EXCEPT !.pipe_broken = TRUE]
    /\ CmdFrame

\* The loop is left for the finally block with the status to return.
Leave(why, code) ==
    [cmd EXCEPT !.pc = "finally", !.fi = 1, !.cause = why, !.ret = code,
               !.log = <<"stop_reading">>]

\* One turn of the command's loop: the running test, the test of the
\* worker, and output that is written (w) or, in accelerometer.main, kept in
\* payload_buf.
LoopTurn ==
    /\ cmd.pc = "loop"
    /\ \E w \in BOOLEAN :
          cmd' = IF ~cmd.running THEN Leave("signal", "exit 0")
                ELSE IF cmd.prog \in Kinds /\ ~cmd.walive
                THEN IF cmd.prog = "motion_live"
                     THEN [cmd EXCEPT !.walive = TRUE]
                     ELSE Leave("worker_exit", "exit 1")
                ELSE IF w /\ cmd.pipe_broken
                THEN IF SigPipe(cmd.prog) = "default"
                     THEN [cmd EXCEPT !.pc = "done", !.cause = "broken_pipe",
                                     !.status = "SIGPIPE"]
                     ELSE IF cmd.prog = "motion_live"
                     THEN Leave("broken_pipe", "exit 1")
                     ELSE Leave("broken_pipe", "exit 0")
                ELSE [cmd EXCEPT !.pending = (cmd.prog = "accelerometer" /\ ~w)]
    /\ CmdFrame

\* The next statement of the finally block; after the last one the command
\* ends with the status it was leaving with.
FinallyStep ==
    /\ cmd.pc = "finally"
    /\ LET stmt == Plan(cmd.prog)[cmd.fi]
           last == cmd.fi = Len(Plan(cmd.prog))
           go == [cmd EXCEPT !.fi = cmd.fi + 1,
                            !.pc = IF last THEN "done" ELSE "finally",
                            !.status = IF last THEN cmd.ret ELSE "running"]
       IN  cmd' = IF stmt = "flush"
                 THEN IF cmd.pending
                      THEN [go EXCEPT !.pending = FALSE, !.log = Append(cmd.log, "flush")]
                      ELSE go
                 ELSE IF stmt = "output"
                 THEN IF cmd.pipe_broken
                      THEN [cmd EXCEPT !.pc = "done", !.status = "exit 1",
                                      !.log = Append(cmd.log, "flush")]
                      ELSE [go EXCEPT !.log = Append(cmd.log, "flush")]
                 ELSE IF stmt = "stop_worker"
                 THEN [go EXCEPT !.walive = FALSE,
                                 !.log = cmd.log \o StopWorker(cmd.prog, cmd.walive, cmd.stubborn)]
                 ELSE [go EXCEPT !.log = Append(cmd.log, stmt)]
    /\ CmdFrame

CmdNext ==
    \/ RequireRoot
    \/ Signal
    \/ WorkerExits
    \/ ReaderCloses
    \/ LoopTurn
    \/ FinallyStep

SpecCmd == CmdSpecInit /\ [][CmdNext]_vars

\* What can stand where the magic is expected: nothing, the magic, fewer
\* bytes than the magic, as many other bytes, the magic with its blank
\* missing.
Heads == {<<>>, MAGIC, <<"M", "S">>, <<"0", "0", "0", "0", "0", "0">>,
          <<"M", "S", "I", "G", "1", "1">>}

\* The strings of at most n field bytes.
RECURSIVE FieldsUpTo(_)
FieldsUpTo(n) ==
    IF n = 0 THEN {<<>>}
    ELSE LET shorter == FieldsUpTo(n - 1)
         IN  shorter \cup {Append(t, b) : t \in shorter, b \in FieldBytes}

\* What follows the rate field: the end of the input, or a newline and
\* the bytes of whole or broken samples.
Endings == {<<>>} \cup {<<"\n">> \o [i \in 1..k |-> "0"] : k \in 0..MaxPayload}

HdrSpecInit ==
    /\ kind = "motion_live" /\ InitState
    /\ DecIdle /\ AccIdle /\ DetIdle /\ CusIdle /\ ClsIdle /\ CmdIdle /\ RtIdle /\ HbIdle /\ PkIdle /\ PipeIdle /\ LgIdle /\ MahIdle /\ FstIdle /\ SchIdle /\ ResIdle
    /\ \E h \in Heads, f \in FieldsUpTo(MaxField), e \in Endings,
          raw \in BOOLEAN, sample_rate \in {None, Some(0), Some(1)} :
          /\ (h = <<>>) => (f = <<>> /\ e = <<>>)
          /\ hdr = HdrInit(h \o f \o e, raw, sample_rate)

HdrFrame == UNCHANGED <<ring, dec, acc, det, now, dlog, cus, cls, cmd, rt, hb, pk, pipe, lg, mah, fst, sch, res>>

\* FloatSignalReader.from_stdin: read_header, then the reader with the rate
\* and the carried prefix (reader, empty until then), unless read_header
\* raised.
FromStdin ==
    /\ hdr.pc = "start"
    /\ \E r \in {read_header(hdr.stream, hdr.raw, hdr.sample_rate)} :
          hdr' = IF r.raises # "none"
                 THEN [hdr EXCEPT !.pc = "raised", !.raised = r.raises]
                 ELSE [hdr EXCEPT !.pc = "reading", !.pos = r.pos,
                                  !.reader = <<[sample_rate |-> r.rate, carry |-> r.prefix]>>]
    /\ HdrFrame

\* One turn of iter_chunks: the rest of the input is read, joined to the
\* carry, and its whole samples are yielded.
IterChunk ==
    /\ hdr.pc = "reading"
    /\ LET data == ReadBytes(hdr.stream, hdr.pos, CHUNK_BYTES)
           bytes == hdr.reader[1].carry \o data
           n_aligned == (Len(bytes) \div 4) * 4
       IN  hdr' = IF data = <<>> THEN [hdr EXCEPT !.pc = "end"]
                  ELSE [hdr EXCEPT !.pos = hdr.pos + Len(data),
                                   !.yielded = hdr.yielded + (IF n_aligned = 0 THEN 0 ELSE 1),
                                   !.reader[1].carry = SubSeq(bytes, n_aligned + 1, Len(bytes))]
    /\ HdrFrame

HdrNext ==
    \/ FromStdin
    \/ IterChunk

SpecHdr == HdrSpecInit /\ [][HdrNext]_vars

\* A writer's header, followed by payload bytes, read back by read_header.
RateQs == (0..MaxRateQ) \cup ((NATIVE_RATE_HZ * RateQ - 2)..(NATIVE_RATE_HZ * RateQ + 2))

RtSpecInit ==
    /\ kind = "motion_live" /\ InitState
    /\ DecIdle /\ AccIdle /\ DetIdle /\ CusIdle /\ ClsIdle /\ CmdIdle /\ HdrIdle /\ HbIdle /\ PkIdle /\ PipeIdle /\ LgIdle /\ MahIdle /\ FstIdle /\ SchIdle /\ ResIdle
    /\ \E writer \in Writers, q \in RateQs, npay \in 0..MaxPayload :
          rt = RtInit(writer, q, npay)

RtFrame == UNCHANGED <<ring, dec, acc, det, now, dlog, cus, cls, cmd, hdr, hb, pk, pipe, lg, mah, fst, sch, res>>

\* The rate check of the writer, write_header, and the payload after it.
WriteHeader ==
    /\ rt.pc = "write"
    /\ rt' = IF Accepts(rt.writer, rt.q)
             THEN [rt EXCEPT !.pc = "read",
                             !.stream = HeaderBytes(rt.q) \o [i \in 1..rt.npay |-> "0"]]
             ELSE [rt EXCEPT !.pc = "refused"]
    /\ RtFrame

\* The reader's side: read_header on what was written, raw mode off.
ReadBack ==
    /\ rt.pc = "read"
    /\ rt' = [rt EXCEPT !.pc = "done", !.res = read_header(rt.stream, FALSE, None)]
    /\ RtFrame

RtNext ==
    \/ WriteHeader
    \/ ReadBack

SpecRt == RtSpecInit /\ [][RtNext]_vars

\* A headerless stream whose bytes differ from each other, and one whose
\* first bytes are those of the magic.
Payloads == {[i \in 1..n |-> DigitChars[(i % 10) + 1]] : n \in 0..MaxRawLen}
            \cup {MAGIC \o <<"7", "\n", "1", "2", "3", "4">>}

RawSpecInit ==
    /\ kind = "motion_live" /\ InitState
    /\ DecIdle /\ AccIdle /\ DetIdle /\ CusIdle /\ ClsIdle /\ CmdIdle /\ RtIdle /\ HbIdle /\ PkIdle /\ PipeIdle /\ LgIdle /\ MahIdle /\ FstIdle /\ SchIdle /\ ResIdle
    /\ \E stream \in Payloads, sample_rate \in {None, Some(0), Some(1)} :
          hdr = RawInit(stream, sample_rate)

IterChunkOf_CarryForgotten(n) ==
    /\ hdr.pc = "reading"
    /\ LET data == ReadBytes(hdr.stream, hdr.pos, n)
           bytes == data
           n_aligned == (Len(bytes) \div 4) * 4
       IN  hdr' = IF data = <<>> THEN [hdr EXCEPT !.pc = "end"]
                  ELSE IF n_aligned = 0
                  THEN [hdr EXCEPT !.pos = hdr.pos + Len(data), !.reader[1].carry = bytes]
                  ELSE [hdr EXCEPT !.pos = hdr.pos + Len(data),
                                   !.yielded = hdr.yielded + 1,
                                   !.out = hdr.out \o Decode(SubSeq(bytes, 1, n_aligned)),
                                   !.reader[1].carry = SubSeq(bytes, n_aligned + 1, Len(bytes))]
    /\ HdrFrame

\* One turn of iter_chunks whose read() returns n bytes, or what is left of
\* the input if that is less.
IterChunkOf(n) ==
    /\ hdr.pc = "reading"
    /\ LET data == ReadBytes(hdr.stream, hdr.pos, n)
           bytes == hdr.reader[1].carry \o data
           n_aligned == (Len(bytes) \div 4) * 4
       IN  hdr' = IF data = <<>> THEN [hdr EXCEPT !.pc = "end"]
                  ELSE IF n_aligned = 0
                  THEN [hdr EXCEPT !.pos = hdr.pos + Len(data), !.reader[1].carry = bytes]
                  ELSE [hdr EXCEPT !.pos = hdr.pos + Len(data),
                                   !.yielded = hdr.yielded + 1,
                                   !.out = hdr.out \o Decode(SubSeq(bytes, 1, n_aligned)),
                                   !.reader[1].carry = SubSeq(bytes, n_aligned + 1, Len(bytes))]
    /\ HdrFrame

\* The bytes of the input come in any split across the read() calls.
IterChunkAny == \E n \in 1..MaxRead : IterChunkOf(n)

RawNext ==
    \/ FromStdin
    \/ IterChunkAny

SpecRaw == RawSpecInit /\ [][RawNext]_vars

\* detect_heartbeat on a buffer too short, just long enough, or full, holding
\* a pulse train of a period between 200 BPM and 50 BPM, or nothing.
HbPeriods == {LagLo, LagLo + 1, 45, 60, 75, FS - 1, FS, FS + 1, (FS * 12) \div 10 - 1, (FS * 12) \div 10}

HbLengths == {0, FS * HR_MIN_S - 1, FS * HR_MIN_S, FS * HR_WINDOW_S}

HbSpecInit ==
    /\ kind = "motion_live" /\ InitState
    /\ DecIdle /\ AccIdle /\ DetIdle /\ CusIdle /\ ClsIdle /\ CmdIdle /\ HdrIdle /\ RtIdle /\ PkIdle /\ PipeIdle /\ LgIdle /\ MahIdle /\ FstIdle /\ SchIdle /\ ResIdle
    /\ \E period \in HbPeriods, w \in 0..MaxWidth, n \in HbLengths :
          hb = HbInit(period, w, n)

HbFrame == UNCHANGED <<ring, dec, acc, det, now, dlog, cus, cls, cmd, hdr, rt, pk, pipe, lg, mah, fst, sch, res>>

DetectHeartbeat ==
    /\ hb.pc = "idle"
    /\ \E r \in {detect_heartbeat(hb.buf)} : hb' = [hb EXCEPT !.pc = "done", !.hr = r]
    /\ HbFrame

HbNext == DetectHeartbeat

SpecHb == HbSpecInit /\ [][HbNext]_vars

\* One evaluation of the peak stage on a window of at least STAT_MINLEN
\* magnitudes.
PkSpecInit ==
    /\ kind = "motion_live" /\ InitState
    /\ DecIdle /\ AccIdle /\ DetIdle /\ CusIdle /\ ClsIdle /\ CmdIdle /\ HdrIdle /\ RtIdle /\ HbIdle /\ PipeIdle /\ LgIdle /\ MahIdle /\ FstIdle /\ SchIdle /\ ResIdle
    /\ \E n \in {STAT_MINLEN, STAT_MINLEN + 1}, spread \in {0, 5, 10}, dev \in (0 - MaxDev)..MaxDev :
          pk = PkInit(n, spread, dev)

PkFrame == UNCHANGED <<ring, dec, acc, det, now, dlog, cus, cls, cmd, hdr, rt, hb, pipe, lg, mah, fst, sch, res>>

PeakEval ==
    /\ pk.pc = "idle"
    /\ pk' = [pk EXCEPT !.pc = "done",
                        !.evts = PeakEvts(pk.buf, pk.buf[Len(pk.buf)])]
    /\ PkFrame

PkNext == PeakEval

SpecPk == PkSpecInit /\ [][PkNext]_vars

\* The batches of samples of a turn of main's loop.
RECURSIVE BatchesUpTo(_)
BatchesUpTo(n) ==
    IF n = 0 THEN {<<>>}
    ELSE LET shorter == BatchesUpTo(n - 1)
         IN  shorter \cup {Append(b, k) : b \in shorter, k \in SampleKinds}

PipeSpecInit ==
    /\ kind = "motion_live" /\ InitState
    /\ DecIdle /\ AccIdle /\ DetIdle /\ CusIdle /\ ClsIdle /\ CmdIdle /\ HdrIdle /\ RtIdle /\ HbIdle /\ PkIdle /\ LgIdle /\ MahIdle /\ FstIdle /\ SchIdle /\ ResIdle
    /\ \E batch \in BatchesUpTo(MaxBatchLen) : pipe = PipeInit(batch)

PipeFrame == UNCHANGED <<ring, dec, acc, det, now, dlog, cus, cls, cmd, hdr, rt, hb, pk, lg, mah, fst, sch, res>>

\* det.process(sx, sy, sz, now) on the next sample of the batch: it counts
\* the sample and runs its stages; on a faulty sample a stage raises after
\* the sample is counted and appended to kurt_buf.
ProcessSample ==
    /\ pipe.pc = "for" /\ pipe.i <= Len(pipe.batch)
    /\ LET entered == [pipe EXCEPT !.before = <<pipe.sample_count, pipe.kurt_len>>,
                                   !.sample_count = pipe.sample_count + 1,
                                   !.kurt_len = pipe.kurt_len + 1]
       IN  pipe' = IF pipe.batch[pipe.i] = "ok"
                   THEN [entered EXCEPT !.i = pipe.i + 1, !.returned = pipe.returned + 1]
                   ELSE OnException(entered)
    /\ PipeFrame

\* The exception leaves the while loop, the finally block runs, and the
\* interpreter ends with a traceback.
Propagate ==
    /\ pipe.pc = "raised"
    /\ pipe' = [pipe EXCEPT !.pc = "exited", !.status = "exit 1"]
    /\ PipeFrame

\* The batch is through: the loop goes on to its next turn.
BatchDone ==
    /\ pipe.pc = "for" /\ pipe.i > Len(pipe.batch)
    /\ pipe' = [pipe EXCEPT !.pc = "next_turn"]
    /\ PipeFrame

PipeNext ==
    \/ ProcessSample
    \/ Propagate
    \/ BatchDone

SpecPipe == PipeSpecInit /\ [][PipeNext]_vars

\* The detections a call can end with, and its magnitude.
EvtsOffered == {<<>>, <<<<"PEAK", "micro">>>>, <<<<"STA/LTA", 0>>, <<"CUSUM", "pos">>>>}

LgSpecInit ==
    /\ kind = "motion_live" /\ InitState
    /\ DecIdle /\ AccIdle /\ DetIdle /\ CusIdle /\ ClsIdle /\ CmdIdle /\ HdrIdle /\ RtIdle /\ HbIdle /\ PkIdle /\ PipeIdle /\ MahIdle /\ FstIdle /\ SchIdle /\ ResIdle
    /\ lg = LgInit

LgFrame == UNCHANGED <<ring, dec, acc, det, now, dlog, cus, cls, cmd, hdr, rt, hb, pk, pipe, mah, fst, sch, res>>

\* The end of one more process() call, dt ms after the one before, with
\* the detections evts.
LogCall ==
    /\ lg.calls < MaxCalls
    /\ \E evts \in EvtsOffered, dt \in {0, REARM_MS, REARM_MS + 1}, mag \in {2000000, 6000000} :
          \E r \in {EmitLogs(lg.events, lg.event_ts, lg.last_evt_t, evts, lg.t + dt, mag)} :
              lg' = [lg EXCEPT !.events = r.events, !.event_ts = r.event_ts,
                               !.last_evt_t = r.last_evt_t, !.t = lg.t + dt,
                               !.calls = lg.calls + 1,
                               !.hist = IF r.emitted
                                        THEN Append(lg.hist, Event(evts, lg.t + dt, mag))
                                        ELSE lg.hist]
    /\ LgFrame

LgNext == LogCall

SpecLg == LgSpecInit /\ [][LgNext]_vars

\* Accelerations: none, 0.2 g, just 0.3 g, and 1 g or its diagonals along
\* several directions.  Gyro rates in degrees per second.
Accels == {<<0, 0, 0>>, <<2, 0, 0>>, <<0, 3, 0>>, <<0, 0, -10>>, <<0, 0, 10>>,
           <<10, 0, -10>>, <<0, 10, 0>>, <<0, -10, -10>>}

GyroRates == {<<0, 0, 0>>, <<90, 0, 0>>, <<0, -45, 30>>}

MahSpecInit ==
    /\ kind = "motion_live" /\ InitState
    /\ DecIdle /\ AccIdle /\ DetIdle /\ CusIdle /\ ClsIdle /\ CmdIdle /\ HdrIdle /\ RtIdle /\ HbIdle /\ PkIdle /\ PipeIdle /\ LgIdle /\ FstIdle /\ SchIdle /\ ResIdle
    /\ mah = MahInit

MahFrame == UNCHANGED <<ring, dec, acc, det, now, dlog, cus, cls, cmd, hdr, rt, hb, pk, pipe, lg, fst, sch, res>>

\* ahrs.process_gyro(gx, gy, gz)
ProcessGyro ==
    /\ mah.calls < MaxUpdates
    /\ \E g \in GyroRates :
          /\ g # mah.gyro_latest
          /\ mah' = [mah EXCEPT !.gyro_latest = g]
    /\ MahFrame

\* ahrs.update_with_accel(ax, ay, az, dt)
UpdateWithAccel ==
    /\ mah.calls < MaxUpdates
    /\ \E a \in Accels, dt \in {10, 20} :
          \E r \in {update_with_accel(mah, a, dt)} :
              mah' = [r EXCEPT !.calls = mah.calls + 1, !.a = a, !.was_init = mah.init]
    /\ MahFrame

MahNext ==
    \/ ProcessGyro
    \/ UpdateWithAccel

SpecMah == MahSpecInit /\ [][MahNext]_vars

\* The accelerations of a first sample, per axis: from -2 g to 2 g.
FirstLevels == {0 - 2 * NANO, 0 - 1, 0, NANO, 2 * NANO}

\* After the first sample the x axis rests or is knocked by 0.05 g.
Knocks == {0 - NANO \div 20, 0, NANO \div 20}

FstSpecInit ==
    /\ kind = "motion_live" /\ InitState
    /\ DecIdle /\ AccIdle /\ DetIdle /\ CusIdle /\ ClsIdle /\ CmdIdle /\ HdrIdle /\ RtIdle /\ HbIdle /\ PkIdle /\ PipeIdle /\ LgIdle /\ MahIdle /\ SchIdle /\ ResIdle
    /\ fst = FstInit

FstFrame == UNCHANGED <<ring, dec, acc, det, now, dlog, cus, cls, cmd, hdr, rt, hb, pk, pipe, lg, mah, sch, res>>

\* det.process(ax, ay, az, t_now) with its appends to the waveform, the
\* dwt buffer and the heartbeat buffer.
ProcessOn(ax, ay, az) ==
    \E r \in {Process(fst.det, ax, ay, az, T0)} :
        fst' = [det |-> r.det,
                waveform |-> DequeAppend(fst.waveform, r.mag, WAVE_MAXLEN),
                dwt_buffer |-> DequeAppend(fst.dwt_buffer, r.mag, DWT_MAXLEN),
                hr |-> IF r.ran THEN HrBandpass(fst.hr, r.mag) ELSE fst.hr,
                hr_buf |-> IF r.ran
                           THEN DequeAppend(fst.hr_buf, HrBandpass(fst.hr, r.mag).lp_prev,
                                            FS * HR_WINDOW_S)
                           ELSE fst.hr_buf,
                evts |-> r.evts, raw |-> <<ax, ay, az>>]

\* The first process() call of a detector, on any sample.
FirstCall ==
    /\ fst.det.sample_count = 0
    /\ \E ax \in FirstLevels, ay \in FirstLevels, az \in FirstLevels : ProcessOn(ax, ay, az)
    /\ FstFrame

\* A later process() call.
LaterCall ==
    /\ fst.det.sample_count > 0 /\ fst.det.sample_count < MaxFirstCalls
    /\ \E k \in Knocks : ProcessOn(fst.raw[1] + k, fst.raw[2], fst.raw[3])
    /\ FstFrame

FstNext ==
    \/ FirstCall
    \/ LaterCall

SpecFst == FstSpecInit /\ [][FstNext]_vars

\* The x acceleration changes only once the statistics' windows are nearly
\* full, so that the knock is in the window of the first evaluations.
KnockFrom == STAT_MINLEN - 4

SchSpecInit ==
    /\ kind = "motion_live" /\ InitState
    /\ DecIdle /\ AccIdle /\ DetIdle /\ CusIdle /\ ClsIdle /\ CmdIdle /\ HdrIdle /\ RtIdle /\ HbIdle /\ PkIdle /\ PipeIdle /\ LgIdle /\ MahIdle /\ FstIdle /\ ResIdle
    /\ sch = SchInit

SchFrame == UNCHANGED <<ring, dec, acc, det, now, dlog, cus, cls, cmd, hdr, rt, hb, pk, pipe, lg, mah, fst, res>>

\* det.process(ax, ay, az, now), each sample in a poll of its own, the polls
\* further apart than the re-arm interval.
SchSample ==
    /\ sch.det.sample_count < MaxSchedule
    /\ \E ax \in Levels :
          /\ ax # sch.x => (sch.knocks < MaxKnocks /\ sch.det.sample_count >= KnockFrom)
          /\ \E r \in {Process(sch.det, ax, 0, NANO,
                               T0 + (REARM_MS + 1) * (sch.det.sample_count + 1))} :
                sch' = [det |-> r.det, evts |-> r.evts, kurt |-> r.kurt, peak |-> r.peak,
                        everKurt |-> (sch.everKurt \/ r.kurt),
                        everPeak |-> (sch.everPeak \/ r.peak),
                        x |-> ax,
                        knocks |-> IF ax # sch.x THEN sch.knocks + 1 ELSE sch.knocks]
    /\ SchFrame

SchNext == SchSample

SpecSch == SchSpecInit /\ [][SchNext]_vars

\* The CUSUM stage entered with any accumulators up to cusum_h and any mean:
\* the accumulators at 0, at cusum_k, just below cusum_h and at cusum_h.
EntryLevels == {0, cusum_k, cusum_h - 1, cusum_h}

\* The magnitudes of a call, as distances from the mean either way: none,
\* cusum_k and the next value, half of cusum_h, cusum_h and 0.05 g.
Distances == {0, cusum_k, cusum_k + 1, cusum_h \div 2, cusum_h, NANO \div 20}

EntSpecInit ==
    /\ kind = "motion_live" /\ InitState
    /\ DecIdle /\ AccIdle /\ DetIdle /\ ClsIdle /\ CmdIdle /\ HdrIdle /\ RtIdle /\ HbIdle /\ PkIdle /\ PipeIdle /\ LgIdle /\ MahIdle /\ FstIdle /\ SchIdle /\ ResIdle
    /\ \E m0 \in {0, 2 * cusum_h}, p \in EntryLevels, n \in EntryLevels :
          cus = [CusInit(m0, 0) EXCEPT !.pos = p, !.neg = n]

\* One process() call's CUSUM stage, on any magnitude.
AnySample ==
    /\ cus.n < MaxEntries
    /\ \E dist \in Distances, sign \in {-1, 1} :
          /\ cus.mu + sign * dist >= 0
          /\ \E c \in {Cusum(cus.mu, cus.pos, cus.neg, cus.mu + sign * dist)} :
                cus' = [cus EXCEPT !.mu = c.mu, !.pos = c.pos, !.neg = c.neg,
                                   !.mag = cus.mu + sign * dist,
                                   !.n = cus.n + 1,
                                   !.fired = cus.fired \/ c.firedPos \/ c.firedNeg,
                                   !.last = (IF c.firedPos THEN {"pos"} ELSE {})
                                            \cup (IF c.firedNeg THEN {"neg"} ELSE {})]
    /\ UNCHANGED <<ring, dec, acc, det, now, dlog, cls, cmd, hdr, rt, hb, pk, pipe, lg, mah, fst, sch, res>>

EntNext == AnySample

SpecEnt == EntSpecInit /\ [][EntNext]_vars

\* The rates: their quotients are the steps 1/4, 1/2, 3/4, 1, 5/4, 3/2, 2,
\* 5/2, 3 and 5.
InputRates == {1, 2, 3, 5}

OutputRates == {1, 2, 4}

\* The input sequences of at most n samples, the samples of three levels.
RECURSIVE InputsUpTo(_)
InputsUpTo(n) ==
    IF n = 0 THEN {<<>>}
    ELSE LET shorter == InputsUpTo(n - 1)
         IN  shorter \cup {Append(s, v) : s \in shorter, v \in {0, 1, 5}}

ResSpecInit ==
    /\ kind = "motion_live" /\ InitState
    /\ DecIdle /\ AccIdle /\ DetIdle /\ CusIdle /\ ClsIdle /\ CmdIdle /\ HdrIdle /\ RtIdle /\ HbIdle /\ PkIdle /\ PipeIdle /\ LgIdle /\ MahIdle /\ FstIdle /\ SchIdle
    /\ \E i \in InputRates, o \in OutputRates, input \in InputsUpTo(MaxInput) :
          res = ResInit(i, o, input)

ResFrame == UNCHANGED <<ring, dec, acc, det, now, dlog, cus, cls, cmd, hdr, rt, hb, pk, pipe, lg, mah, fst, sch>>

\* out = resampler.process(mono) on the next n samples of the input.
ProcessChunk ==
    /\ res.fed < Len(res.input)
    /\ \E n \in 1..(Len(res.input) - res.fed) :
          \E r \in {ResamplerProcess(res, SubSeq(res.input, res.fed + 1, res.fed + n))} :
              res' = [res EXCEPT !.buf = r.buf, !.pos = r.pos, !.fed = res.fed + n,
                                 !.out = res.out \o r.out, !.last = r.out]
    /\ ResFrame

ResNext == ProcessChunk

SpecRes == ResSpecInit /\ [][ResNext]_vars

\* A stream with a header as the writers make it, then a payload of whole
\* and broken samples whose bytes differ from each other, or one that holds
\* a newline byte.
HeaderLines == {MAGIC \o <<"7", "\n">>, MAGIC \o <<"1", "0", "0", "\n">>}

PaySpecInit ==
    /\ kind = "motion_live" /\ InitState
    /\ DecIdle /\ AccIdle /\ DetIdle /\ CusIdle /\ ClsIdle /\ CmdIdle /\ RtIdle /\ HbIdle /\ PkIdle /\ PipeIdle /\ LgIdle /\ MahIdle /\ FstIdle /\ SchIdle /\ ResIdle
    /\ \E h \in HeaderLines,
          p \in {[i \in 1..n |-> DigitChars[(i % 10) + 1]] : n \in 0..MaxRawLen}
                \cup {<<"1", "\n", "2", "3", "4", "\n">>} :
          hdr = [RawInit(h \o p, None) EXCEPT !.raw = FALSE]

SpecPay == PaySpecInit /\ [][RawNext]_vars

\* ----------------------------------------------------------------- claims

\* The k-th stored sample as shm_read_new hands it out.
InG(k) == <<<<k, ACCEL_SCALE>>, <<0 - k, ACCEL_SCALE>>, <<0, ACCEL_SCALE>>>>

\* What a read from last_total = 0 owes after n writes: all n samples, or
\* the newest RING_CAP of them, oldest first.
ExpectedRead(n) ==
    LET m == IF n > RING_CAP THEN RING_CAP ELSE n
    IN  [k \in 1..m |-> InG(n - m + k)]

\* A step in which shm_read_new returns to its caller.
ReadReturns == cpc \in {"r_total", "r_slot"} /\ cpc' = "loop"

\* Live producer processes attached to the ring.
LiveProducers == orphans + (IF walive THEN 1 ELSE 0)

\* C1: after N whole writes to a zeroed ring and no read in between, a read
\* with last_total = 0 returns the N samples in write order when
\* N <= RING_CAP, the newest RING_CAP of them when N > RING_CAP, and the
\* total N.
C1_ReadAfterNWrites ==
    [][(ReadReturns /\ last_total = 0)
         => (ret' = ExpectedRead(nstored) /\ last_total' = nstored)]_vars

\* C1 witness: a read from last_total = 0 has returned after more than
\* RING_CAP writes, with a full ring's worth of samples.
C1_Witness ==
    /\ nreads >= 1 /\ callLast = 0
    /\ last_total > RING_CAP
    /\ Len(ret) = RING_CAP

\* C2: the consumer never loads a slot the producer has stored to since the
\* consumer loaded total_written in the same shm_read_new call.
C2_NoRacedLoad == ~raced

\* C3: while the consumer is never RING_CAP or more samples behind, what the
\* chained reads have returned is exactly the written samples, in write
\* order, none twice and none skipped, up to the total the consumer holds.
C3_ExactlyOnceInOrder ==
    ~lagged =>
        /\ Len(delivered) = last_total
        /\ \A k \in 1..Len(delivered) : delivered[k] = InG(k)

\* C4: a shm_read_new call that follows another one, with no producer store
\* since the earlier call loaded total_written, returns no samples and the
\* total it was given.
C4_SecondReadEmpty ==
    [][(cpc = "r_total" /\ cpc' # cpc /\ quiet)
         => (cpc' = "loop" /\ ret' = <<>> /\ last_total' = last_total)]_vars

\* C4 witness: the second of two reads has returned empty, with the total it
\* was given, after samples were written and read and nothing written since.
C4_Witness ==
    /\ nreads = 2 /\ quiet /\ ret = <<>>
    /\ callLast = last_total /\ last_total > 0
    /\ nstored = last_total /\ wpc = "idle"

\* C5: a write in progress can always take its next step, and a report that
\* starts a write is always accepted, whatever the consumer's position and
\* however far behind it is.
C5_WriteNeverBlocked ==
    /\ (walive /\ InWrite) => ENABLED WriteStep
    /\ (walive /\ wpc = "idle" /\ nstored < MaxWrites) => ENABLED OnReport

\* C5 witness: a write is in progress while the consumer is more than
\* RING_CAP samples behind.
C5_Witness ==
    /\ walive /\ wpc = "w_slot"
    /\ nstored - last_total > RING_CAP

\* C6: total_written never decreases; it grows by exactly 1 in the step that
\* completes a shm_write_sample and in no other step, the start of a new
\* sensor_worker included.
C6_TotalMonotonic ==
    [][/\ total_written' \in {total_written, total_written + 1}
       /\ (total_written' = total_written + 1)
             <=> (wpc = "w_stotal" /\ wpc' = "idle")
       /\ (wpc' = "boot" \/ wpc = "boot") => total_written' = total_written]_vars

\* C6 witness: a respawned sensor_worker is starting on a ring that already
\* holds a non-zero total.
C6_Witness ==
    /\ walive /\ wpc = "boot"
    /\ restart_count >= 1
    /\ total_written >= 1

\* C7: write_idx stays in [0, RING_CAP); it changes only in the write-index
\* store of shm_write_sample, which advances it by 1 modulo RING_CAP.
C7_WriteIndexInRange ==
    [][/\ write_idx \in 0..(RING_CAP - 1)
       /\ write_idx' \in 0..(RING_CAP - 1)
       /\ IF wpc = "w_idx" /\ wpc' = "w_ltotal"
          THEN write_idx' = (write_idx + 1) % RING_CAP
          ELSE write_idx' = write_idx]_vars

\* C7 witness: the write index has wrapped around to 0.
C7_Witness ==
    /\ wpc = "w_ltotal"
    /\ write_idx = 0
    /\ nstored >= RING_CAP

\* C8: at most one producer process is alive at any time, and the consumer
\* spawns one only when it has no worker or its worker is dead.
C8_AtMostOneProducer ==
    /\ [](LiveProducers <= 1)
    /\ [][(wpc' = "boot" /\ wpc # "boot") => (worker = "none" \/ ~walive)]_vars

\* C8 witness: motion_live has respawned and exactly one producer is alive.
C8_Witness ==
    /\ kind = "motion_live"
    /\ restart_count >= 1
    /\ walive /\ LiveProducers = 1
    /\ wpc = "w_slot"

ConsumerKeeps ==
    /\ det_fed' = det_fed /\ last_total' = last_total /\ running' = running
    /\ UNCHANGED <<shm, rdr>>

\* C11: a step of motion_live.main that respawns a dead producer leaves the
\* detector as it was (filter memories, averages, flags, accumulators,
\* windows, event log and sample_count are what the samples fed so far made
\* them), and of the consumer's state changes only the restart counter and
\* the worker handle; the death of the producer changes nothing of it either.
C11_RespawnKeepsDetector ==
    [][/\ (kind = "motion_live" /\ restart_count' # restart_count) => ConsumerKeeps
       /\ (walive /\ ~walive' /\ cpc # "finally" /\ cpc # "finally_err")
             => UNCHANGED <<cons, shm, rdr>>]_vars

\* The producer has just been respawned while the detector holds samples.
C11_Witness ==
    /\ kind = "motion_live" /\ restart_count >= 1 /\ wpc = "boot"
    /\ Len(det_fed) >= 1

\* Reports decimate, 2*decimate, ..., n*decimate.
Multiples(d, n) == [j \in 1..n |-> j * d]

\* C12: with decimation factor decimate >= 1, after k valid-length reports
\* to a channel's callback exactly floor(k / decimate) samples are in that
\* channel's ring, and they are reports decimate, 2*decimate, ...; a report
\* of another length changes neither ring nor counter; the two channels'
\* counters advance independently of each other.
C12_Decimation ==
    /\ [](dec.decimate >= 1 =>
            \A c \in Channels :
               LET ch == dec.chan[c]
               IN  /\ ch.total_written = ch.k \div dec.decimate
                   /\ ch.log = Multiples(dec.decimate, ch.k \div dec.decimate)
                   /\ ch.ctr = ch.k % dec.decimate)
    /\ [][\A c \in Channels :
             dec'.chan[c].k = dec.chan[c].k => dec'.chan[c] = dec.chan[c]]_vars

\* Both channels have dropped and kept reports, at different counts, and a
\* report of another length has been handed in.
C12_Witness ==
    /\ dec.decimate = 2
    /\ dec.chan["accel"].k = 4 /\ dec.chan["accel"].total_written = 2
    /\ dec.chan["gyro"].k = 1 /\ dec.chan["gyro"].total_written = 0
    /\ dec.calls > 5

\* floor(800 / rate) of the exact quotient.
ExactFloor(rate) == (NATIVE_RATE_HZ * RateUnit) \div rate

StaLtaFired(log, i) == \E j \in 1..Len(log.evts) : log.evts[j] = <<"STA/LTA", i>>

\* C14: for each timescale, a det.process call records an STA/LTA detection
\* only if the ratio of the updated averages is above the on-threshold and
\* the timescale was inactive, and after a detection none follows until a
\* sample has had its ratio below the off-threshold; so one sustained burst
\* gives one on-transition per timescale.
C14_StaLtaHysteresis ==
    [][det'.sample_count # det.sample_count =>
         \A i \in Scales :
            StaLtaFired(dlog', i) =>
               /\ RatioAbove(det'.sta[i], det'.lta[i], thresh_on[i])
               /\ ~det.sta_lta_active[i]
               /\ dlog.low[i]
               /\ det'.sta_lta_active[i]]_vars

\* The fastest timescale has fired, fallen below its off-threshold and fired
\* again, while a slower one fired once and has stayed active.
C14_Witness ==
    /\ dlog.nfire[0] = 2
    /\ dlog.nfire[2] = 1 /\ det.sta_lta_active[2]

\* C17: any two events next to each other in the event log have time stamps
\* more than 0.01 s apart, whichever detectors fired.
C17_EventsRearmed ==
    \A j \in 1..(Len(det.events) - 1) :
        det.events[j + 1].time - det.events[j].time > REARM_MS

\* Two events are in the log, and the last call had detections that the
\* gate kept out of it.
C17_Witness ==
    /\ Len(det.events) >= 2
    /\ dlog.evts # <<>> /\ ~dlog.emitted
    /\ now - det.events[Len(det.events)].time <= REARM_MS

\* No later sample of the shift can raise an accumulator: both are back at
\* zero and the mean has followed the magnitude to within cusum_k, which it
\* only ever approaches.
CusumSpent ==
    /\ cus.n > 0 /\ cus.pos = 0 /\ cus.neg = 0
    /\ Abs(cus.mag - cus.mu) <= cusum_k

\* C15 as stated: a sustained step larger than cusum_k leads to a detection,
\* so a detection has been recorded by the time no later sample can raise
\* an accumulator; the accumulator that fired is zero after the call.
C15_AnyStepAboveKFires ==
    /\ (Abs(cus.step) > cusum_k /\ CusumSpent) => cus.fired
    /\ ("pos" \in cus.last => cus.pos = 0) /\ ("neg" \in cus.last => cus.neg = 0)

\* Samples within which a step of twice cusum_k has fired.
FireWithin == (2 * cusum_h) \div cusum_k + 1

\* C15: a sustained step of at least twice cusum_k from the adapted mean
\* makes CUSUM record a detection within 2 * cusum_h / cusum_k + 1 samples,
\* and the accumulator that fired is zero after the call.
C15_DoubleStepFires ==
    /\ (Abs(cus.step) >= 2 * cusum_k /\ cus.n >= FireWithin) => cus.fired
    /\ ("pos" \in cus.last => cus.pos = 0) /\ ("neg" \in cus.last => cus.neg = 0)

\* A downward step of twice cusum_k has just fired the negative accumulator.
C15_Witness ==
    /\ cus.step = 0 - 2 * cusum_k /\ "neg" \in cus.last /\ cus.neg = 0
    /\ cus.n > 1

\* The detectors named by at least one of the detections handed over.
Distinct == {n \in SourceNames : \E j \in 1..Len(cls.detections) : cls.detections[j][1] = n}

\* C16: the severity of an event is the first of: CHOC_MAJEUR with 4 or
\* more distinct sources and amplitude above 0.05 g, CHOC_MOYEN with 3 or
\* more and above 0.02 g, MICRO_CHOC with PEAK among them and above 0.005 g,
\* VIBRATION with STA/LTA or CUSUM among them and above 0.003 g, VIB_LEGERE
\* above 0.001 g, else MICRO_VIB; several detections of one detector are
\* one source.
C16_SeverityPrecedence ==
    cls.events # <<>> =>
        LET ev == cls.events[1]
            ns == Cardinality(Distinct)
            majeur == ns >= 4 /\ cls.amp > NANO \div 20
            moyen == ns >= 3 /\ cls.amp > NANO \div 50
            micro == "PEAK" \in Distinct /\ cls.amp > NANO \div 200
            vib == ({"STA/LTA", "CUSUM"} \cap Distinct # {}) /\ cls.amp > 3 * (NANO \div 1000)
            legere == cls.amp > NANO \div 1000
        IN  /\ ev.nsrc = ns /\ ev.src = Distinct
            /\ (ev.sev = "CHOC_MAJEUR") = majeur
            /\ (ev.sev = "CHOC_MOYEN") = (~majeur /\ moyen)
            /\ (ev.sev = "MICRO_CHOC") = (~majeur /\ ~moyen /\ micro)
            /\ (ev.sev = "VIBRATION") = (~majeur /\ ~moyen /\ ~micro /\ vib)
            /\ (ev.sev = "VIB_LEGERE") = (~majeur /\ ~moyen /\ ~micro /\ ~vib /\ legere)
            /\ (ev.sev = "MICRO_VIB") = (~majeur /\ ~moyen /\ ~micro /\ ~vib /\ ~legere)

\* Four detections of two detectors, PEAK not among them, well above
\* 0.05 g: an event of two sources, classified VIBRATION.
C16_Witness ==
    /\ cls.events # <<>>
    /\ Len(cls.detections) = 4 /\ cls.amp > NANO \div 20
    /\ cls.events[1].nsrc = 2 /\ cls.events[1].sev = "VIBRATION"

\* In log every a comes before every b.
Before(log, a, b) ==
    \A i, j \in 1..Len(log) : (log[i] = a /\ log[j] = b) => i < j

\* Every kill in log comes right after a terminate and a join.
KillAfterTimeout(log) ==
    \A i \in 1..Len(log) :
        log[i] = "kill" => (i >= 3 /\ log[i - 1] = "join" /\ log[i - 2] = "terminate")

Teardown == {"terminate", "join", "kill"}

\* C18 as stated: every consumer, on shutdown, stops reading, then tears the
\* producer down by terminate and, only after a join, kill, then flushes
\* pending output, then closes and unlinks the shared memory.
C18_OneShutdownOrder ==
    (cmd.prog \in Kinds /\ cmd.log # <<>>) =>
        /\ cmd.log[1] = "stop_reading"
        /\ KillAfterTimeout(cmd.log)
        /\ \A t \in Teardown : Before(cmd.log, t, "flush") /\ Before(cmd.log, t, "close")
        /\ Before(cmd.log, "flush", "close")
        /\ Before(cmd.log, "close", "unlink")

\* C18: every consumer, on shutdown, stops reading first and closes and
\* then unlinks the shared memory last, after the producer is torn down and
\* output is flushed.  accelerometer.main and gyroscope.main terminate, join,
\* and kill only after that join; motion_live.main kills at once, without a
\* terminate.  accelerometer.main flushes its pending payload before it tears
\* the producer down, motion_live.main writes its output after.
C18_ShutdownOrderPerProgram ==
    (cmd.prog \in Kinds /\ cmd.log # <<>>) =>
        /\ cmd.log[1] = "stop_reading"
        /\ \A t \in Teardown : Before(cmd.log, t, "close")
        /\ Before(cmd.log, "flush", "close")
        /\ Before(cmd.log, "close", "unlink")
        /\ cmd.prog # "motion_live" => KillAfterTimeout(cmd.log)
        /\ cmd.prog = "motion_live" =>
              /\ \A i \in 1..Len(cmd.log) : cmd.log[i] # "terminate"
              /\ \A t \in Teardown : Before(cmd.log, t, "flush")
        /\ cmd.prog = "accelerometer" => \A t \in Teardown : Before(cmd.log, "flush", t)

\* accelerometer.main has shut down with a payload pending and a worker that
\* outlived the terminate.
C18_Witness ==
    /\ cmd.prog = "accelerometer" /\ cmd.pc = "done"
    /\ cmd.log = <<"stop_reading", "flush", "terminate", "join", "kill", "join",
                  "close", "unlink">>

\* C19 as stated: accelerometer.main, gyroscope.main and run_sensor_source
\* end with status 0 after a signal and after a broken pipe, and with
\* status 1 after the producer's unexpected exit and without root.
C19_ExitStatus ==
    (cmd.prog # "motion_live" /\ cmd.pc = "done") =>
        /\ cmd.cause \in {"signal", "broken_pipe"} => cmd.status = "exit 0"
        /\ cmd.cause \in {"worker_exit", "no_root"} => cmd.status = "exit 1"

\* The input starts with the magic.
HasMagic(stream) == Len(stream) >= Len(MAGIC) /\ SubSeq(stream, 1, Len(MAGIC)) = MAGIC

\* The rate field of a stream that starts with the magic: the bytes between
\* the magic and the first newline, or the end of the input.
RECURSIVE UpToNewline(_)
UpToNewline(t) ==
    IF t = <<>> \/ Head(t) = "\n" THEN <<>> ELSE <<Head(t)>> \o UpToNewline(Tail(t))

RateField(stream) == UpToNewline(SubSeq(stream, Len(MAGIC) + 1, Len(stream)))

\* The field names a number: after its blanks are dropped it is an optional
\* sign and digits.  "nan" names none.
IsNumber(text) ==
    LET t == Strip(text)
        u == IF t # <<>> /\ Head(t) = "-" THEN Tail(t) ELSE t
    IN  u # <<>> /\ \A i \in 1..Len(u) : u[i] \in Digits

\* The inputs the header check has to refuse.
Malformed(h) ==
    \/ /\ HasMagic(h.stream)
       /\ \/ RateField(h.stream) = <<>>
          \/ ~IsNumber(RateField(h.stream))
          \/ ParseFloat(RateField(h.stream)).value <= 0
    \/ ~HasMagic(h.stream) /\ ~h.raw

\* C20 as stated: for every input that starts with the magic and has an
\* empty, non-numeric or non-positive rate field, or that does not start with
\* the magic while raw mode is off, read_header raises StreamFormatError, no
\* FloatSignalReader is constructed and no chunk is yielded.
C20_MalformedHeaderRaises ==
    (hdr.pc # "start" /\ Malformed(hdr)) =>
        (hdr.raised = "StreamFormatError" /\ hdr.reader = <<>> /\ hdr.yielded = 0)

\* C21 as stated: for every rate > 0 that a writer accepts, read_header
\* accepts the header written, returns the rate int(round(rate)) and an empty
\* carry, and leaves the stream at the first payload byte.
C21_HeaderRoundTrip ==
    (rt.pc = "done" /\ rt.q > 0) =>
        /\ rt.res.raises = "none"
        /\ rt.res.rate = [kind |-> "number", value |-> Round(rt.q)]
        /\ rt.res.prefix = <<>>
        /\ rt.res.pos = Len(rt.stream) - rt.npay

\* C22 as stated: in raw mode with a positive rate the chunks yielded by
\* iter_chunks, joined, are the float32 decoding of the whole stream, its
\* first 6 bytes included, cut to a multiple of 4 bytes, however the bytes
\* are split across the reads; in raw mode without a positive rate
\* read_header raises StreamFormatError.
C22_RawLosesNothing ==
    /\ (hdr.raw /\ hdr.sample_rate.given /\ hdr.sample_rate.value > 0 /\ hdr.pc = "end")
          => hdr.out = Decode(hdr.stream)
    /\ (hdr.raw /\ ~(hdr.sample_rate.given /\ hdr.sample_rate.value > 0)
               /\ hdr.pc # "start" /\ ~HasMagic(hdr.stream) /\ hdr.stream # <<>>)
          => hdr.raised = "StreamFormatError"

\* C23 as stated: at fs = 100 detect_heartbeat searches every lag from 30
\* through 120, so that on a full buffer holding a signal of a period of 30
\* to 120 samples (200 to 50 BPM) it reports a heartbeat whose lag is within
\* one of the period.
C23_LagsCoverFiftyToTwoHundred ==
    (hb.pc = "done" /\ Len(hb.buf) = FS * HR_WINDOW_S /\ hb.w > 0) =>
        /\ LagHi(Len(hb.buf)) - 1 = (60 * FS) \div 50
        /\ hb.hr.given
        /\ hb.hr.lag - hb.period \in {-1, 0, 1}

\* C29: after a call of detect_heartbeat a heartbeat that is reported has
\* 0.15 < hr_confidence <= 1 and 50 <= hr_bpm <= 200, and when none is
\* reported hr_confidence is 0.
C29_HeartbeatConfidence ==
    hb.pc = "done" =>
        IF hb.hr.given
        THEN /\ hb.hr.s > 3 * (hb.hr.var \div 20) + (3 * (hb.hr.var % 20)) \div 20
             /\ hb.hr.s <= hb.hr.var
             /\ 50 * hb.hr.lag <= 60 * FS
             /\ 60 * FS <= 200 * hb.hr.lag
        ELSE hb.hr.s = 0

\* A heartbeat of 45 samples' period has been reported from 5 s of samples.
C29_Witness ==
    /\ hb.pc = "done" /\ hb.hr.given /\ hb.hr.lag = 45
    /\ Len(hb.buf) = FS * HR_MIN_S

\* The detections of the last call name CUSUM in direction dir.
CusumRecorded(dir) == \E j \in 1..Len(dlog.evts) : dlog.evts[j] = <<"CUSUM", dir>>

\* An accumulator a after a call on magnitude mag, whose deviation from the
\* adapted mean counts with sign sg: what it reached during the call.
Reached(a, sg, mag, mu) ==
    IF a + sg * (mag - mu) - cusum_k < 0 THEN 0 ELSE a + sg * (mag - mu) - cusum_k

\* C24: after every process() call 0 <= cusum_pos <= cusum_h and
\* 0 <= cusum_neg <= cusum_h; when an accumulator exceeds cusum_h during a
\* call, a CUSUM detection of its direction is among the detections of that
\* call and the accumulator is zero when the call returns.
C24_CusumBounded ==
    /\ [](/\ 0 <= det.cusum_pos /\ det.cusum_pos <= cusum_h
          /\ 0 <= det.cusum_neg /\ det.cusum_neg <= cusum_h)
    /\ [][(det.hp_ready /\ det'.sample_count # det.sample_count) =>
            LET mag == det'.peak_buf[Len(det'.peak_buf)]
                p == Reached(det.cusum_pos, 1, mag, det'.cusum_mu)
                n == Reached(det.cusum_neg, -1, mag, det'.cusum_mu)
            IN  /\ p > cusum_h => (CusumRecorded("pos")' /\ det'.cusum_pos = 0)
                /\ n > cusum_h => (CusumRecorded("neg")' /\ det'.cusum_neg = 0)
                /\ p <= cusum_h => det'.cusum_pos = p
                /\ n <= cusum_h => det'.cusum_neg = n]_vars

\* The positive accumulator has just fired and been reset.
C24_Witness ==
    /\ CusumRecorded("pos") /\ det.cusum_pos = 0 /\ det.sample_count >= 2

\* The normalised deviation of the evaluated magnitude exceeds t10 / 10.
PkExceeds(t10) == DevAbove(pk.buf, pk.buf[Len(pk.buf)], t10)

\* C25: a Peak/MAD evaluation records at most one PEAK detection, of the
\* highest of the thresholds 2.0, 3.5, 5.0, 8.0 that the normalised
\* deviation exceeds, and none when the deviation is at most 2.0.
C25_OnePeakHighestTier ==
    pk.pc = "done" =>
        /\ Len(pk.evts) <= 1
        /\ \A j \in 1..Len(pk.evts) : pk.evts[j][1] = "PEAK"
        /\ pk.evts = <<>> <=> ~PkExceeds(20)
        /\ \A j \in 1..Len(Tiers) :
              (pk.evts # <<>> /\ pk.evts[1][2] = Tiers[j][1]) <=>
                  /\ PkExceeds(Tiers[j][2])
                  /\ \A i \in 1..(j - 1) : ~PkExceeds(Tiers[i][2])

\* A deviation above 5.0 and not above 8.0 has been recorded as fort.
C25_Witness ==
    /\ pk.pc = "done" /\ pk.evts = <<<<"PEAK", "fort">>>>
    /\ PkExceeds(50) /\ ~PkExceeds(80)

LastOf(s, n) == IF Len(s) > n THEN SubSeq(s, Len(s) - n + 1, Len(s)) ELSE s

\* C27: the event log never holds more than its capacity of entries, nor the
\* time stamp log more than its own; every event emitted is appended to
\* both, and each log holds the most recent entries in the order of
\* emission, the oldest being dropped when the log is full.
C27_LogsBounded ==
    /\ Len(lg.events) <= EventsMax
    /\ Len(lg.event_ts) <= EventTsMax
    /\ lg.events = LastOf(lg.hist, EventsMax)
    /\ lg.event_ts = LastOf([j \in 1..Len(lg.hist) |-> lg.hist[j].time], EventTsMax)

\* Both logs are full and have dropped entries, the event log fewer.
C27_Witness ==
    /\ Len(lg.hist) > EventsMax
    /\ Len(lg.events) = EventsMax /\ Len(lg.event_ts) = EventTsMax
    /\ lg.events[1] = lg.hist[Len(lg.hist) - EventsMax + 1]

\* The quaternion of an acceleration of 1 g straight down the -z axis, and
\* of the same turned a quarter about x: the identity, and a quarter roll.
LevelQuaternion == <<QU, 0, 0, 0>>

\* C30: update_with_accel with a norm below 0.3 leaves the quaternion, the
\* integral error and the initialised flag as they are; the first call with
\* a norm of at least 0.3 sets the initialised flag and the quaternion, from
\* the direction of gravity alone whatever the gyro rate is, and leaves the
\* integral error at zero.
C30_GateAndFirstSample ==
    [][(mah'.calls # mah.calls) =>
         /\ NormSq(mah'.a) < GATE_SQ =>
               (mah'.q = mah.q /\ mah'.err_int = mah.err_int /\ mah'.init = mah.init)
         /\ (NormSq(mah'.a) >= GATE_SQ /\ ~mah.init) =>
               /\ mah'.init /\ mah'.err_int = <<0, 0, 0>>
               /\ mah'.q = GravityQuaternion(mah'.a)
               /\ mah'.a = <<0, 0, -10>> => mah'.q = LevelQuaternion
               /\ mah'.gyro_latest = mah.gyro_latest]_vars

\* The first valid sample has come after a rejected one, while the gyro was
\* turning: the orientation is the one of gravity.
C30_Witness ==
    /\ mah.calls = 2 /\ mah.init /\ ~mah.was_init
    /\ mah.gyro_latest = <<90, 0, 0>> /\ mah.a = <<10, 0, -10>>
    /\ mah.q = <<924, 0, -383, 0>>

\* C26: the first process() call on a new detector, whatever the sample,
\* sets the high-pass memory from the sample and appends a zero magnitude to
\* the waveform and the dwt buffer; it emits no detection and no event, and
\* the STA/LTA averages and active flags, the CUSUM accumulators and mean,
\* and the kurtosis, peak and heartbeat buffers stay as they were.
C26_FirstCallOnlyInitialises ==
    [][(fst.det.sample_count = 0 /\ fst'.det.sample_count = 1) =>
         /\ fst'.det.hp_ready /\ fst'.det.hp_prev_raw = fst'.raw
         /\ fst'.det.hp_prev_out = <<0, 0, 0>>
         /\ fst'.waveform = Append(fst.waveform, 0)
         /\ fst'.dwt_buffer = Append(fst.dwt_buffer, 0)
         /\ fst'.evts = <<>> /\ fst'.det.events = fst.det.events
         /\ fst'.det.event_ts = fst.det.event_ts
         /\ fst'.det.sta = fst.det.sta /\ fst'.det.lta = fst.det.lta
         /\ fst'.det.sta_lta_active = fst.det.sta_lta_active
         /\ fst'.det.cusum_pos = fst.det.cusum_pos
         /\ fst'.det.cusum_neg = fst.det.cusum_neg
         /\ fst'.det.cusum_mu = fst.det.cusum_mu
         /\ fst'.det.kurt_buf = fst.det.kurt_buf
         /\ fst'.det.peak_buf = fst.det.peak_buf
         /\ fst'.hr_buf = fst.hr_buf /\ fst'.hr = fst.hr]_vars

\* A first call on a sample of 2 g on x and -2 g on z has been made: one
\* zero in the waveform, nothing in the stage buffers.
C26_Witness ==
    /\ fst.det.sample_count = 1 /\ fst.raw = <<2 * NANO, 0, 0 - 2 * NANO>>
    /\ fst.det.hp_prev_raw = fst.raw /\ fst.waveform = <<0>>
    /\ fst.det.peak_buf = <<>> /\ fst.hr_buf = <<>>

\* C31: no process() call evaluates both the kurtosis and the peak
\* statistics: the kurtosis is evaluated at sample counts 51, 61, ..., the
\* peak statistics at multiples of 10; so the detections of a call name at
\* most 3 sources, and no event in the log has 4 sources or the severity
\* CHOC_MAJEUR.
C31_KurtosisAndPeakApart ==
    /\ ~(sch.kurt /\ sch.peak)
    /\ sch.kurt => (sch.det.sample_count > STAT_MINLEN
                    /\ sch.det.sample_count % STAT_PERIOD = 1)
    /\ sch.peak => sch.det.sample_count % STAT_PERIOD = 0
    /\ NumSources(sch.evts) <= 3
    /\ \A j \in 1..Len(sch.det.events) :
          sch.det.events[j].nsrc <= 3 /\ sch.det.events[j].sev # "CHOC_MAJEUR"

\* Sixty samples are through: both statistics have been evaluated, and the
\* log holds an event of the kurtosis and an event of the peak stage.
C31_Witness ==
    /\ sch.det.sample_count >= 60 /\ sch.everKurt /\ sch.everPeak
    /\ \E j \in 1..Len(sch.det.events) : "KURTOSIS" \in sch.det.events[j].src
    /\ \E j \in 1..Len(sch.det.events) : "PEAK" \in sch.det.events[j].src

\* C32: the samples of one turn of main's loop are all processed with the
\* time read at the head of the turn, so a turn appends at most one event to
\* the log, however many of its samples have detections: once an event is
\* appended its time is the turn's, and the gate keeps the rest out.
C32_OneEventPerPoll ==
    /\ dlog.emits <= 1
    /\ det.last_evt_t <= now
    /\ dlog.emits = 1 => det.last_evt_t = now

\* A turn has appended an event, and a later sample of the same turn had
\* detections that were kept out of the log.
C32_Witness ==
    /\ dlog.emits = 1 /\ det.last_evt_t = now
    /\ dlog.evts # <<>> /\ ~dlog.emitted

\* The detections of the last call hold d.
Detected(d) == \E j \in 1..Len(dlog.evts) : dlog.evts[j] = d

\* C33: detections made while the re-arm gate is closed are dropped with the
\* call: that call appends nothing to the logs, yet the STA/LTA flag it set
\* stays set and the CUSUM accumulator it reset stays at zero; a later call
\* without detections of its own appends nothing, and an event a call does
\* append carries that call's time and the sources of that call's
\* detections only.
C33_SuppressedAreDiscarded ==
    [][(det'.sample_count # det.sample_count) =>
         /\ (dlog'.evts # <<>> /\ now - det.last_evt_t <= REARM_MS) =>
               /\ det'.events = det.events /\ det'.event_ts = det.event_ts
               /\ det'.last_evt_t = det.last_evt_t
               /\ \A i \in Scales : Detected(<<"STA/LTA", i>>)' => det'.sta_lta_active[i]
               /\ Detected(<<"CUSUM", "pos">>)' => det'.cusum_pos = 0
               /\ Detected(<<"CUSUM", "neg">>)' => det'.cusum_neg = 0
         /\ dlog'.evts = <<>> =>
               (det'.events = det.events /\ det'.event_ts = det.event_ts)
         /\ det'.events # det.events =>
               /\ det'.events[Len(det'.events)].time = now
               /\ det'.events[Len(det'.events)].src = Sources(dlog'.evts)]_vars

\* Detections have been dropped at the gate; the gate has opened again and a
\* later call, without detections, has appended nothing, while the slowest
\* timescale is still active.
C33_Witness ==
    /\ dlog.dropped /\ dlog.evts = <<>> /\ ~dlog.emitted
    /\ now - det.last_evt_t > REARM_MS
    /\ det.sta_lta_active[2]

\* The number of the write that made the sample s.
WriteNo(s) == s[1][1]

\* C34: a turn of motion_live.main's loop gives the detector at most
\* MAX_BATCH samples, the newest ones of what shm_read_new returned, and
\* last_total becomes the total that call loaded; the samples left out are
\* never given later, the detector's samples being in strictly rising write
\* order; so the detector can have seen fewer samples than were written
\* although no written sample was lost to the reads.
C34_BatchCapped ==
    /\ [](\A j \in 1..(Len(det_fed) - 1) : WriteNo(det_fed[j]) < WriteNo(det_fed[j + 1]))
    /\ [][ReadReturns =>
            LET n == Len(ret')
                m == IF n > MAX_BATCH THEN MAX_BATCH ELSE n
            IN  /\ det_fed' = det_fed \o SubSeq(ret', n - m + 1, n)
                /\ Len(det_fed') <= Len(det_fed) + MAX_BATCH
                /\ last_total' = (IF cpc = "r_total" THEN total_written ELSE r_total)]_vars

\* A read has returned more than MAX_BATCH samples; the reads together have
\* returned every written sample once, in order, and the consumer is up to
\* date, yet the detector has been given fewer samples than were written.
C34_Witness ==
    /\ Len(ret) > MAX_BATCH /\ cpc = "loop"
    /\ last_total = total_written /\ Len(delivered) = total_written
    /\ \A k \in 1..Len(delivered) : delivered[k] = InG(k)
    /\ Len(det_fed) < total_written

\* C35: a process() call entered with both CUSUM accumulators at most
\* cusum_h fires at most one direction, and leaves both at most cusum_h.
C35_OneCusumDirection ==
    /\ Cardinality(cus.last) <= 1
    /\ cus.pos >= 0 /\ cus.pos <= cusum_h
    /\ cus.neg >= 0 /\ cus.neg <= cusum_h

\* A call has fired the positive direction alone although the negative
\* accumulator was above zero on entry and still is.
C35_Witness ==
    /\ cus.n = 1 /\ cus.last = {"pos"} /\ cus.pos = 0
    /\ cus.neg > 0 /\ cus.neg < cusum_h

\* C36 as stated: whenever no shm_write_sample is in progress, also after a
\* producer was killed at any point and another was spawned on the ring,
\* write_index is total_written modulo RING_CAP.
C36_IndexFollowsTotal ==
    ~InWrite => write_idx = total_written % RING_CAP

\* The finally block has made the call c.
Logged(c) == \E j \in 1..Len(cmd.log) : cmd.log[j] = c

\* C37 as stated: however a consumer that started a worker comes to its end
\* (stop signal, broken pipe, death of the worker, failure while writing its
\* output), its worker is stopped and its shared memory is closed and
\* unlinked.
C37_CleanupCompletes ==
    (cmd.pc = "done" /\ cmd.prog \in Kinds /\ cmd.cause # "no_root") =>
        (~cmd.walive /\ Logged("close") /\ Logged("unlink"))

\* C38 as stated: for any rates and any input, the outputs of process() over
\* any split of the input into chunks, joined, are the output of one call on
\* the whole input; and a call that returned output leaves at most one
\* sample buffered and 0 <= pos < 1.
C38_ChunkIndependent ==
    /\ res.fed = Len(res.input) => res.out = res.whole
    /\ res.last # <<>> => (Len(res.buf) <= 1 /\ res.pos >= 0 /\ res.pos < POS_Q)

\* The bytes after the first newline of a stream.
PayloadOf(stream) ==
    LET nl == CHOOSE i \in 1..Len(stream) :
                 stream[i] = "\n" /\ \A j \in 1..(i - 1) : stream[j] # "\n"
    IN  SubSeq(stream, nl + 1, Len(stream))

====
